---- MODULE Spec2Model ----
(***************************************************************************)
(* A model of the offline-first annotation subsystem of the inductivebible *)
(* repository: the marking store (src/src/store/markingStore.ts), the      *)
(* local store (src/src/lib/storage.ts), the sync layer                    *)
(* (src/src/lib/sync.ts) and the data API of the worker                    *)
(* (src/worker/index.ts).                                                  *)
(*                                                                         *)
(* Conventions.  A JavaScript object used as a map is a TLA+ function      *)
(* whose DOMAIN is its key set.  An optional value (T | null | undefined)  *)
(* is a tuple of length 0 or 1: None is <<>>, Some(v) is <<v>>.  A word    *)
(* key `${verse}:${wordIndex}` is the pair <<verse, wordIndex>>: the text  *)
(* is an injective rendering of the pair, and key.startsWith(`${verse}:`)  *)
(* holds exactly when the first component is verse.                        *)
(***************************************************************************)
EXTENDS Integers, Sequences, FiniteSets, TLC

VARIABLES
  translation, book, chapter,   \* markingStore: the active chapter
  markings,                     \* markingStore: Record<string, WordMarkings>
  undoStack, redoStack,         \* markingStore: snapshots of markings
  lastAction,                   \* markingStore: string | null
  hasCloudBackup,               \* markingStore: boolean
  localStorage,                 \* browser storage: storage key -> text | absent
  quotaExceeded,                \* browser storage: setItem throws while TRUE
  timers,                       \* sync.ts: the pending debounce timers, each with its key
  net,                          \* requests in flight and promises not yet resumed
  markingsTable, notesTable, symbolsTable, memoryTable,  \* D1 tables
  cache,                        \* KV namespace CACHE: key -> text
  preferencesTable, devicesTable,  \* D1 tables of the accounts and of the devices
  opCount,                      \* number of calls made so far (also the id of a call)
  baseMap, nMut,                \* history variables: the map before the first of the
                                \* last nMut consecutive state-changing mutations
  archived                      \* history variable: chapter -> the stacks the store
                                \* held when loadChapter last left the chapter

storeVars == <<translation, book, chapter, markings, undoStack, redoStack,
               lastAction, hasCloudBackup>>
clientVars == <<localStorage, quotaExceeded, timers>>
accountVars == <<preferencesTable, devicesTable>>
serverVars == <<markingsTable, notesTable, symbolsTable, memoryTable, cache, accountVars>>
histVars == <<baseMap, nMut, archived>>
vars == <<storeVars, clientVars, net, serverVars, opCount, histVars>>

----------------------------------------------------------------------------
(* Bounds of the model *)

MaxOps == 3          \* Spec: calls of the user in one behaviour
MaxHistoryOps == 4   \* SpecHistory: calls of the user in one behaviour
MaxRequests == 3     \* SpecServer: requests sent in one behaviour
MaxToolbarOps == 4   \* SpecToolbar: store calls made in one behaviour
MaxAuthRequests == 2 \* SpecAuth: requests that arrive in one behaviour
MaxStorageOps == 3   \* SpecStorage: calls of the user in one behaviour
MaxSessionInits == 3 \* SpecClaim: session inits in one behaviour
MaxKeyOps == 3       \* SpecKeys: calls of the user in one behaviour
MaxTime == 1         \* Date.now() returns a value in 1..MaxTime
SeedDepth == 48      \* SpecHistory: the deep initial state follows this many calls

(* Program constants *)

MAX_UNDO == 50

Times == 1 .. MaxTime

None == <<>>
Some(v) == <<v>>

----------------------------------------------------------------------------
(* Data: chapters, word keys, layers *)

Translations == {"ESV"}
Books == {1}
ChapterNumbers == {1, 2}

Verses == {1, 2}
WordIndexes == {0}

MarkingTypes == {"symbol", "highlight", "underline"}
UsedTypes == {"symbol", "highlight"}

ValuesOf(type) == IF type = "symbol" THEN {"Cross|#dc2626|fill"} ELSE {"#ff0000"}

wordKey(verse, wordIndex) == <<verse, wordIndex>>

EmptyMap == <<>>

Keys(m) == DOMAIN m

\* { ...a, ...b }
Spread(a, b) ==
  [k \in DOMAIN a \cup DOMAIN b |-> IF k \in DOMAIN b THEN b[k] ELSE a[k]]

\* { ...m, [k]: v }
With(m, k, v) == [x \in DOMAIN m \cup {k} |-> IF x = k THEN v ELSE m[x]]

\* const { [k]: _, ...rest } = m
Without(m, k) == [x \in DOMAIN m \ {k} |-> m[x]]

Layer(value, createdAt) == [value |-> value, createdAt |-> createdAt]

\* a test that takes every record for a marked one
hasAnyMarkingAlways(m) == TRUE

hasAnyMarking(m) ==
  "highlight" \in DOMAIN m \/ "underline" \in DOMAIN m \/ "symbol" \in DOMAIN m

Last(s) == s[Len(s)]
Front(s) == SubSeq(s, 1, Len(s) - 1)

----------------------------------------------------------------------------
(* storage.ts: the local store.  A stored text is <<"json", v>> when it   *)
(* parses to v, and <<"text", <<>>>> when JSON.parse throws on it.         *)

JSONStringify(v) == <<"json", v>>
JSONParses(text) == text[1] = "json"
JSONParse(text) == text[2]

StorageKey(t, b, c) == <<"markings:", t, b, c>>
StorageKeys == {StorageKey(t, b, c) : t \in Translations, b \in Books, c \in ChapterNumbers}

\* a load that returns the parsed entries as they are
migrateLegacyNone(raw) == raw

migrateLegacy(raw) ==
  [key \in DOMAIN raw |->
     IF "type" \in DOMAIN raw[key]
       THEN [x \in {raw[key]["type"]} |->
               Layer(raw[key]["value"], raw[key]["createdAt"])]
       ELSE raw[key]]

loadMarkings(t, b, c) ==
  LET raw == localStorage[StorageKey(t, b, c)]
  IN IF raw = None THEN EmptyMap
     ELSE IF ~JSONParses(raw[1]) THEN EmptyMap
     ELSE migrateLegacy(JSONParse(raw[1]))

\* the store after saveMarkings(t, b, c, m); setItem throws when the quota is exceeded
saveMarkings(store, t, b, c, m) ==
  IF quotaExceeded THEN store
  ELSE [store EXCEPT ![StorageKey(t, b, c)] = Some(JSONStringify(m))]

\* the boolean saveMarkings returns: true after setItem, false from the catch
saveMarkingsReturns == ~quotaExceeded

----------------------------------------------------------------------------
(* sync.ts: the debounce map and the requests of the client *)

SyncKey(t, b, c) == <<"markings:", t, b, c>>

\* a debounce that sets the new timer without clearing the pending one
debounceNoClear(tm, key, fn) == tm \cup {[fn EXCEPT !.key = key]}

\* a debounce with one timer for all keys
debounceOneTimer(tm, key, fn) ==
  LET existing == {timer \in tm : timer.key = key}
      calls == IF existing = {} THEN 1 ELSE (CHOOSE timer \in existing : TRUE).calls + 1
  IN {[fn EXCEPT !.key = key, !.calls = calls]}

\* debounce(key, fn): the pending timer of key, if any, is cleared, and a new one is
\* set.  `calls` counts the calls the new timer stands for (a history field).
debounce(tm, key, fn) ==
  LET existing == {timer \in tm : timer.key = key}
      calls == IF existing = {} THEN 1 ELSE (CHOOSE timer \in existing : TRUE).calls + 1
  IN (tm \ existing) \cup {[fn EXCEPT !.key = key, !.calls = calls]}

\* the closure syncMarkingsToCloud hands to debounce captures the chapter and the map;
\* `id` is the call that made the closure
syncMarkingsToCloud(tm, id, t, b, c, data) ==
  debounce(tm, SyncKey(t, b, c),
           [key |-> SyncKey(t, b, c), id |-> id, calls |-> 1,
            translation |-> t, book |-> b, chapter |-> c, data |-> data])

ClientDevice == "dev1"
ClientOwner == [userId |-> None, deviceId |-> Some(ClientDevice)]

\* a request or a promise in flight
Msg(id, kind, stage, owner, t, b, c, data) ==
  [id |-> id, kind |-> kind, stage |-> stage, owner |-> owner,
   translation |-> t, book |-> b, chapter |-> c, data |-> data,
   aux |-> None,      \* what the handler has read so far
   cred |-> None,     \* the credentials of a request whose owner is not yet resolved
   calls |-> 0]       \* for a PUT: the calls its debounce timer stood for

Request(id, kind, t, b, c, data) == Msg(id, kind, "req", ClientOwner, t, b, c, data)

----------------------------------------------------------------------------
(* markingStore.ts *)

\* a push that evicts one snapshot too early
pushUndoShort(stack, currentMarkings) ==
  LET pushed == Append(stack, currentMarkings)
  IN IF Len(pushed) > MAX_UNDO - 1 THEN Tail(pushed) ELSE pushed

\* a push that never evicts
pushUndoUnbounded(stack, currentMarkings) == Append(stack, currentMarkings)

pushUndo(stack, currentMarkings) ==
  LET pushed == Append(stack, currentMarkings)
  IN IF Len(pushed) > MAX_UNDO THEN Tail(pushed) ELSE pushed

\* persist(): saveMarkings, then syncMarkingsToCloud
persist(t, b, c, m) ==
  /\ localStorage' = saveMarkings(localStorage, t, b, c, m)
  /\ timers' = syncMarkingsToCloud(timers, opCount', t, b, c, m)

\* the saveError that UndoToast reads from useMarkingStore(): the state of the store
\* has no such field and persist drops the result of saveMarkings, so the read
\* gives undefined
saveError == FALSE

\* checkBackup() issues a backup GET for the chapter that is active when it is called
checkBackupRequest(id, t, b, c) == Request(id, "backupGet", t, b, c, None)

\* the history variables after a state-changing mutation, and after any other change
Mutated ==
  /\ baseMap' = IF nMut = 0 THEN markings ELSE baseMap
  /\ nMut' = IF nMut > MAX_UNDO THEN nMut ELSE nMut + 1
  /\ UNCHANGED archived
ChainBroken == baseMap' = EmptyMap /\ nMut' = 0 /\ UNCHANGED archived

\* the history variables after loadChapter: the stacks of the chapter it leaves
NoArchive ==
  [key \in Translations \X Books \X ChapterNumbers |->
     [undoStack |-> <<>>, redoStack |-> <<>>]]
ChapterLeft ==
  /\ baseMap' = EmptyMap /\ nMut' = 0
  /\ archived' = IF translation = "" THEN archived
                 ELSE [archived EXCEPT ![<<translation, book, chapter>>] =
                         [undoStack |-> undoStack, redoStack |-> redoStack]]

Called == opCount' = opCount + 1

loadChapter(t, b, c) ==
  LET loaded == loadMarkings(t, b, c)
  IN /\ Called
     /\ translation' = t /\ book' = b /\ chapter' = c
     /\ markings' = loaded
     /\ undoStack' = <<>> /\ redoStack' = <<>>
     /\ lastAction' = None
     /\ hasCloudBackup' = FALSE
     /\ net' = net \cup {Request(opCount', "pull", t, b, c, None)}
                   \cup (IF Keys(loaded) = {}
                           THEN {checkBackupRequest(opCount', t, b, c)} ELSE {})
     /\ ChapterLeft
     /\ UNCHANGED <<clientVars, serverVars>>

\* an addMarking that leaves the redo stack alone
addMarkingKeepsRedo(verse, wordIndex, type, value, now) ==
  LET key == wordKey(verse, wordIndex)
      existing == IF key \in DOMAIN markings THEN markings[key] ELSE <<>>
      newEntry == With(existing, type, Layer(value, now))
      newMarkings == With(markings, key, newEntry)
  IN /\ Called
     /\ markings' = newMarkings
     /\ undoStack' = pushUndo(undoStack, markings)
     /\ lastAction' = Some("Applied " \o type)
     /\ persist(translation, book, chapter, newMarkings)
     /\ Mutated
     /\ UNCHANGED <<translation, book, chapter, hasCloudBackup, quotaExceeded,
                    net, serverVars, redoStack>>

addMarking(verse, wordIndex, type, value, now) ==
  LET key == wordKey(verse, wordIndex)
      existing == IF key \in DOMAIN markings THEN markings[key] ELSE <<>>
      newEntry == With(existing, type, Layer(value, now))
      newMarkings == With(markings, key, newEntry)
  IN /\ Called
     /\ markings' = newMarkings
     /\ undoStack' = pushUndo(undoStack, markings)
     /\ redoStack' = <<>>
     /\ lastAction' = Some("Applied " \o type)
     /\ persist(translation, book, chapter, newMarkings)
     /\ Mutated
     /\ UNCHANGED <<translation, book, chapter, hasCloudBackup, quotaExceeded,
                    net, serverVars>>

removeMarking(verse, wordIndex, type) ==
  LET key == wordKey(verse, wordIndex)
      existing == markings[key]
      rest == Without(existing, type[1])
      newMarkings ==
        IF type # None
          THEN IF hasAnyMarking(rest) THEN With(markings, key, rest)
               ELSE Without(markings, key)
          ELSE Without(markings, key)
  IN /\ Called
     /\ IF key \notin DOMAIN markings
          THEN UNCHANGED <<storeVars, clientVars, histVars>>
          ELSE /\ markings' = newMarkings
               /\ undoStack' = pushUndo(undoStack, markings)
               /\ redoStack' = <<>>
               /\ lastAction' = IF type # None THEN Some("Removed " \o type[1])
                                ELSE Some("Removed mark")
               /\ persist(translation, book, chapter, newMarkings)
               /\ Mutated
               /\ UNCHANGED <<translation, book, chapter, hasCloudBackup, quotaExceeded>>
     /\ UNCHANGED <<net, serverVars>>

\* setTimeout(() => get().checkBackup(), 2000)
CheckTimer(id) == Msg(id, "checkTimer", "timer", ClientOwner, "", 0, 0, None)

clearChapter ==
  LET count == Cardinality(Keys(markings))
  IN /\ Called
     /\ markings' = EmptyMap
     /\ undoStack' = pushUndo(undoStack, markings)
     /\ redoStack' = <<>>
     /\ lastAction' = Some("Cleared " \o ToString(count) \o " marks")
     /\ persist(translation, book, chapter, EmptyMap)
     /\ net' = net \cup {CheckTimer(opCount')}
     /\ Mutated
     /\ UNCHANGED <<translation, book, chapter, hasCloudBackup, quotaExceeded, serverVars>>

clearVerse(verse) ==
  LET cleared == {key \in Keys(markings) : key[1] = verse}
      newMarkings == [key \in Keys(markings) \ cleared |-> markings[key]]
      count == Cardinality(cleared)
  IN /\ Called
     /\ markings' = newMarkings
     /\ undoStack' = pushUndo(undoStack, markings)
     /\ redoStack' = <<>>
     /\ lastAction' = Some("Cleared " \o ToString(count) \o " marks in verse "
                            \o ToString(verse))
     /\ persist(translation, book, chapter, newMarkings)
     /\ Mutated
     /\ UNCHANGED <<translation, book, chapter, hasCloudBackup, quotaExceeded,
                    net, serverVars>>

clearSymbolInChapter(symbol) ==
  LET matching == {key \in Keys(markings) :
                     /\ "symbol" \in DOMAIN markings[key]
                     /\ markings[key]["symbol"].value = symbol}
      kept == {key \in Keys(markings) :
                 key \in matching => hasAnyMarking(Without(markings[key], "symbol"))}
      newMarkings ==
        [key \in kept |-> IF key \in matching THEN Without(markings[key], "symbol")
                          ELSE markings[key]]
      count == Cardinality(matching)
  IN /\ Called
     /\ markings' = newMarkings
     /\ undoStack' = pushUndo(undoStack, markings)
     /\ redoStack' = <<>>
     /\ lastAction' = Some("Cleared " \o ToString(count) \o " " \o symbol \o " marks")
     /\ persist(translation, book, chapter, newMarkings)
     /\ Mutated
     /\ UNCHANGED <<translation, book, chapter, hasCloudBackup, quotaExceeded,
                    net, serverVars>>

\* the part of the store that undo and redo read and write
History == [markings |-> markings, undoStack |-> undoStack, redoStack |-> redoStack]

\* the result of the updater of undo(); the state itself when the stack is empty
undoState(st) ==
  IF Len(st.undoStack) = 0 THEN st
  ELSE [markings |-> Last(st.undoStack),
        undoStack |-> Front(st.undoStack),
        redoStack |-> Append(st.redoStack, st.markings)]

redoState(st) ==
  IF Len(st.redoStack) = 0 THEN st
  ELSE [markings |-> Last(st.redoStack),
        undoStack |-> Append(st.undoStack, st.markings),
        redoStack |-> Front(st.redoStack)]

undo ==
  /\ Called
  /\ IF Len(undoStack) = 0
       THEN UNCHANGED <<storeVars, clientVars, histVars>>
       ELSE /\ markings' = undoState(History).markings
            /\ undoStack' = undoState(History).undoStack
            /\ redoStack' = undoState(History).redoStack
            /\ lastAction' = None
            /\ persist(translation, book, chapter, Last(undoStack))
            /\ ChainBroken
            /\ UNCHANGED <<translation, book, chapter, hasCloudBackup, quotaExceeded>>
  /\ UNCHANGED <<net, serverVars>>

redo ==
  /\ Called
  /\ IF Len(redoStack) = 0
       THEN UNCHANGED <<storeVars, clientVars, histVars>>
       ELSE /\ markings' = redoState(History).markings
            /\ undoStack' = redoState(History).undoStack
            /\ redoStack' = redoState(History).redoStack
            /\ lastAction' = None
            /\ persist(translation, book, chapter, Last(redoStack))
            /\ ChainBroken
            /\ UNCHANGED <<translation, book, chapter, hasCloudBackup, quotaExceeded>>
  /\ UNCHANGED <<net, serverVars>>

\* restoreFromBackup(), up to its await
restoreFromBackup ==
  /\ Called
  /\ net' = net \cup {Request(opCount', "restore", translation, book, chapter, None)}
  /\ UNCHANGED <<storeVars, clientVars, serverVars, histVars>>
----------------------------------------------------------------------------
(* BottomToolbar.tsx: the toolbar applies one layer to the selected words.  *)
(* A handler runs to its end before any other step of the page, so it is    *)
(* one action: the store calls of its loop, made one after another.  It     *)
(* reads `markings` as the component last rendered it, which is the map of  *)
(* the store when the handler starts.                                       *)

WordIds == [verse : Verses, wordIndex : WordIndexes]

getSelectionRange(anchor, focus) ==
  IF \/ anchor.verse < focus.verse
     \/ (anchor.verse = focus.verse /\ anchor.wordIndex <= focus.wordIndex)
    THEN <<anchor, focus>>
    ELSE <<focus, anchor>>

isWordInRange(word, start, end) ==
  IF word.verse < start.verse \/ word.verse > end.verse THEN FALSE
  ELSE IF word.verse = start.verse /\ word.verse = end.verse
    THEN word.wordIndex >= start.wordIndex /\ word.wordIndex <= end.wordIndex
  ELSE IF word.verse = start.verse THEN word.wordIndex >= start.wordIndex
  ELSE IF word.verse = end.verse THEN word.wordIndex <= end.wordIndex
  ELSE TRUE

\* the last index the inner loop visits in a verse that is not the last of the range:
\* 200 in the code, the largest word index of the model here
LastWordIndex == CHOOSE w \in WordIndexes : \A x \in WordIndexes : x <= w

\* the words the two loops push from <<v, w>> on
RECURSIVE selectedFrom(_, _, _, _)
selectedFrom(v, w, start, end) ==
  IF v > end.verse THEN <<>>
  ELSE IF w > (IF v = end.verse THEN end.wordIndex ELSE LastWordIndex)
    THEN selectedFrom(v + 1, 0, start, end)
  ELSE LET word == [verse |-> v, wordIndex |-> w]
       IN (IF isWordInRange(word, start, end) THEN <<word>> ELSE <<>>)
            \o selectedFrom(v, w + 1, start, end)

getSelectedWords(anchor, focus) ==
  LET range == getSelectionRange(anchor, focus)
  IN selectedFrom(range[1].verse, range[1].wordIndex, range[1], range[2])

\* what one call of the store reads and writes
StoreNow ==
  [markings |-> markings, undoStack |-> undoStack, redoStack |-> redoStack,
   lastAction |-> lastAction, localStorage |-> localStorage, timers |-> timers,
   opCount |-> opCount, baseMap |-> baseMap, nMut |-> nMut]

\* persist(), and the history variables, after a state-changing call that leaves newMarkings
mutatedState(st, newMarkings, action) ==
  [markings |-> newMarkings,
   undoStack |-> pushUndo(st.undoStack, st.markings),
   redoStack |-> <<>>,
   lastAction |-> Some(action),
   localStorage |-> saveMarkings(st.localStorage, translation, book, chapter, newMarkings),
   timers |-> syncMarkingsToCloud(st.timers, st.opCount + 1,
                                  translation, book, chapter, newMarkings),
   opCount |-> st.opCount + 1,
   baseMap |-> IF st.nMut = 0 THEN st.markings ELSE st.baseMap,
   nMut |-> IF st.nMut > MAX_UNDO THEN st.nMut ELSE st.nMut + 1]

\* addMarking as a function of the state of the store
addMarkingState(st, verse, wordIndex, type, value, now) ==
  LET key == wordKey(verse, wordIndex)
      existing == IF key \in DOMAIN st.markings THEN st.markings[key] ELSE <<>>
      newEntry == With(existing, type, Layer(value, now))
  IN mutatedState(st, With(st.markings, key, newEntry), "Applied " \o type)

\* removeMarking as a function of the state of the store
removeMarkingState(st, verse, wordIndex, type) ==
  LET key == wordKey(verse, wordIndex)
      existing == st.markings[key]
      rest == Without(existing, type[1])
      newMarkings ==
        IF type # None
          THEN IF hasAnyMarking(rest) THEN With(st.markings, key, rest)
               ELSE Without(st.markings, key)
          ELSE Without(st.markings, key)
  IN IF key \notin DOMAIN st.markings
       THEN [st EXCEPT !.opCount = @ + 1]
       ELSE mutatedState(st, newMarkings,
                         IF type # None THEN "Removed " \o type[1] ELSE "Removed mark")

\* for (const w of words) addMarking(w.verse, w.wordIndex, type, value)
RECURSIVE addEach(_, _, _, _, _)
addEach(st, words, type, value, now) ==
  IF words = <<>> THEN st
  ELSE addEach(addMarkingState(st, Head(words).verse, Head(words).wordIndex,
                               type, value, now),
               Tail(words), type, value, now)

\* for (const w of words) removeMarking(w.verse, w.wordIndex, type)
RECURSIVE removeEach(_, _, _)
removeEach(st, words, type) ==
  IF words = <<>> THEN st
  ELSE removeEach(removeMarkingState(st, Head(words).verse, Head(words).wordIndex, type),
                  Tail(words), type)

\* words.every((w) => markings[key]?.[type]?.value === value)
allSame(words, type, value) ==
  \A i \in 1 .. Len(words) :
    LET key == wordKey(words[i].verse, words[i].wordIndex)
    IN /\ key \in DOMAIN markings
       /\ type \in DOMAIN markings[key]
       /\ markings[key][type].value = value

\* the store after the calls of a handler
StoreBecomes(st) ==
  /\ markings' = st.markings
  /\ undoStack' = st.undoStack
  /\ redoStack' = st.redoStack
  /\ lastAction' = st.lastAction
  /\ localStorage' = st.localStorage
  /\ timers' = st.timers
  /\ opCount' = st.opCount
  /\ baseMap' = st.baseMap
  /\ nMut' = st.nMut
  /\ UNCHANGED <<translation, book, chapter, hasCloudBackup, quotaExceeded,
                 net, serverVars, archived>>

\* the toggle of applyHighlight and applyUnderline, on a selection that is not empty
applyLayer(words, type, value, now) ==
  StoreBecomes(IF allSame(words, type, value)
                 THEN removeEach(StoreNow, words, Some(type))
                 ELSE addEach(StoreNow, words, type, value, now))

applyHighlight(words, color, now) == applyLayer(words, "highlight", color, now)

applyUnderline(words, style, color, now) ==
  applyLayer(words, "underline", style \o ":" \o color, now)

\* applySymbol, as far as the marking store goes
applySymbol(words, symbolValue, now) ==
  StoreBecomes(addEach(StoreNow, words, "symbol", symbolValue, now))

\* the words of the selection that carry a mark, as removeFromSelection calls the
\* store for them
RECURSIVE markedOf(_)
markedOf(words) ==
  IF words = <<>> THEN <<>>
  ELSE (IF wordKey(Head(words).verse, Head(words).wordIndex) \in DOMAIN markings
          THEN <<Head(words)>> ELSE <<>>) \o markedOf(Tail(words))

removeFromSelection(words) == StoreBecomes(removeEach(StoreNow, markedOf(words), None))

----------------------------------------------------------------------------
(* The client's timers firing and its promises resuming *)

\* a debounce timer fires: timers.delete(key), then the PUT of its closure is sent
TimerFires(timer) ==
  /\ timer \in timers
  /\ timers' = {other \in timers : other.key # timer.key}
  /\ net' = net \cup {[Request(timer.id, "put", timer.translation, timer.book,
                               timer.chapter, Some(timer.data))
                         EXCEPT !.calls = timer.calls]}
  /\ UNCHANGED <<storeVars, localStorage, quotaExceeded, serverVars, opCount, histVars>>

\* the timeout clearChapter set fires: checkBackup() for the chapter active now
CheckTimerFires(msg) ==
  /\ msg \in net /\ msg.kind = "checkTimer"
  /\ net' = (net \ {msg}) \cup {checkBackupRequest(msg.id, translation, book, chapter)}
  /\ UNCHANGED <<storeVars, clientVars, serverVars, opCount, histVars>>

\* a callback that applies its result whatever chapter is active
StillOnChapterAlways(t, b, c) == TRUE

\* the staleness test of a callback that was started for chapter (t, b, c)
StillOnChapter(t, b, c) == ~(translation # t \/ book # b \/ chapter # c)

\* a merge in which the remote record wins a collision
mergeCloudRemoteWins(data, current) == Spread(current, data)

\* a merge that replaces the local map by the remote one
mergeCloudReplace(data, current) == data

\* the callback of fetchMarkingsFromCloud(...).then in loadChapter
mergeCloud(data, current) ==
  LET merged == Spread(data, current)
  IN [key \in Keys(merged) |->
        IF key \in Keys(data) /\ key \notin Keys(current) THEN data[key] ELSE merged[key]]

\* a merge callback that records the map it replaces
PullResponsePushes(msg) ==
  /\ msg \in net /\ msg.kind = "pull" /\ msg.stage = "resp"
  /\ net' = net \ {msg}
  /\ IF msg.data = None
       THEN UNCHANGED <<storeVars, clientVars, histVars>>
     ELSE IF ~StillOnChapter(msg.translation, msg.book, msg.chapter)
       THEN UNCHANGED <<storeVars, clientVars, histVars>>
     ELSE LET merged == mergeCloud(msg.data[1], markings)
          IN /\ markings' = merged
             /\ undoStack' = pushUndo(undoStack, markings)
             /\ redoStack' = <<>>
             /\ localStorage' = saveMarkings(localStorage, msg.translation, msg.book,
                                             msg.chapter, merged)
             /\ ChainBroken
             /\ UNCHANGED <<translation, book, chapter, lastAction,
                            hasCloudBackup, quotaExceeded, timers>>
  /\ UNCHANGED <<serverVars, opCount>>

PullResponse(msg) ==
  /\ msg \in net /\ msg.kind = "pull" /\ msg.stage = "resp"
  /\ net' = net \ {msg}
  /\ IF msg.data = None
       THEN UNCHANGED <<storeVars, clientVars, histVars>>
     ELSE IF ~StillOnChapter(msg.translation, msg.book, msg.chapter)
       THEN UNCHANGED <<storeVars, clientVars, histVars>>
     ELSE LET merged == mergeCloud(msg.data[1], markings)
          IN /\ markings' = merged
             /\ localStorage' = saveMarkings(localStorage, msg.translation, msg.book,
                                             msg.chapter, merged)
             /\ ChainBroken
             /\ UNCHANGED <<translation, book, chapter, undoStack, redoStack, lastAction,
                            hasCloudBackup, quotaExceeded, timers>>
  /\ UNCHANGED <<serverVars, opCount>>

\* the callback of fetchMarkingsBackup(...).then in checkBackup
BackupResponse(msg) ==
  /\ msg \in net /\ msg.kind = "backupGet" /\ msg.stage = "resp"
  /\ net' = net \ {msg}
  /\ IF ~StillOnChapter(msg.translation, msg.book, msg.chapter)
       THEN UNCHANGED hasCloudBackup
       ELSE hasCloudBackup' = (msg.data # None /\ Cardinality(Keys(msg.data[1])) > 0)
  /\ UNCHANGED <<translation, book, chapter, markings, undoStack, redoStack, lastAction,
                 clientVars, serverVars, opCount, histVars>>

\* restoreFromBackup() after its await
\* a restore callback that keeps the redo stack
RestoreResponseKeepsRedo(msg) ==
  /\ msg \in net /\ msg.kind = "restore" /\ msg.stage = "resp"
  /\ net' = net \ {msg}
  /\ IF msg.data = None
       THEN UNCHANGED <<storeVars, clientVars, histVars>>
       ELSE /\ markings' = msg.data[1]
            /\ undoStack' = pushUndo(undoStack, markings)
            /\ lastAction' = None
            /\ hasCloudBackup' = FALSE
            /\ localStorage' = saveMarkings(localStorage, msg.translation, msg.book,
                                            msg.chapter, msg.data[1])
            /\ ChainBroken
            /\ UNCHANGED <<translation, book, chapter, redoStack, quotaExceeded, timers>>
  /\ UNCHANGED <<serverVars, opCount>>

RestoreResponse(msg) ==
  /\ msg \in net /\ msg.kind = "restore" /\ msg.stage = "resp"
  /\ net' = net \ {msg}
  /\ IF msg.data = None
       THEN UNCHANGED <<storeVars, clientVars, histVars>>
       ELSE /\ markings' = msg.data[1]
            /\ undoStack' = pushUndo(undoStack, markings)
            /\ redoStack' = <<>>
            /\ lastAction' = None
            /\ hasCloudBackup' = FALSE
            /\ localStorage' = saveMarkings(localStorage, msg.translation, msg.book,
                                            msg.chapter, msg.data[1])
            /\ ChainBroken
            /\ UNCHANGED <<translation, book, chapter, quotaExceeded, timers>>
  /\ UNCHANGED <<serverVars, opCount>>

\* a failed PUT that is queued again
FetchFailsRetries(msg) ==
  /\ msg \in net /\ msg.owner = ClientOwner
  /\ \/ msg.stage = "req" /\ msg.kind \in {"pull", "backupGet", "restore", "put"}
     \/ msg.stage = "resp" /\ msg.kind = "restore" /\ msg.data # None
  /\ net' = net \ {msg}
  /\ IF msg.kind = "backupGet" /\ StillOnChapter(msg.translation, msg.book, msg.chapter)
       THEN hasCloudBackup' = FALSE
       ELSE UNCHANGED hasCloudBackup
  /\ timers' = IF msg.kind = "put"
                THEN syncMarkingsToCloud(timers, msg.id, msg.translation, msg.book,
                                         msg.chapter, msg.data[1])
                ELSE timers
  /\ UNCHANGED <<translation, book, chapter, markings, undoStack, redoStack, lastAction,
                 localStorage, quotaExceeded, serverVars, opCount, histVars>>

\* fetch rejects, or answers with a status that is not ok: the caller resumes at once
\* with { data: null } (a GET), with { ok: false } (the restore POST), or not at all
\* (the PUT, whose catch block is empty).  A request fails before the worker has
\* seen it; the answer to a restore POST can also be lost after the worker has run.
FetchFails(msg) ==
  LET failed == [msg EXCEPT !.stage = "resp", !.data = None]
  IN /\ msg \in net /\ msg.owner = ClientOwner
     /\ \/ msg.stage = "req" /\ msg.kind \in {"pull", "backupGet", "restore", "put"}
        \/ msg.stage = "resp" /\ msg.kind = "restore" /\ msg.data # None
     /\ net' = net \ {msg}
     /\ IF msg.kind = "backupGet" /\ StillOnChapter(msg.translation, msg.book, msg.chapter)
          THEN hasCloudBackup' = FALSE
          ELSE UNCHANGED hasCloudBackup
     /\ UNCHANGED <<translation, book, chapter, markings, undoStack, redoStack, lastAction,
                    clientVars, serverVars, opCount, histVars>>

----------------------------------------------------------------------------
(* worker/index.ts: the data API.  A table is the set of its rows; NULL is *)
(* None.  Each action below is one awaited statement of a handler.         *)

Users == {"u1", "u2"}
Devices == {"dev1", "dev2"}

UserOwner(u) == [userId |-> Some(u), deviceId |-> None]
DeviceOwner(d) == [userId |-> None, deviceId |-> Some(d)]
Owners == {UserOwner(u) : u \in Users} \cup {DeviceOwner(d) : d \in Devices}

\* ownerWhere: the rows the owner's WHERE clause selects
ownerWhere(owner, row) ==
  IF owner.userId # None THEN row.user_id = owner.userId
  ELSE row.device_id = owner.deviceId[1]

\* ownerInsertFields: the owner columns of the row an INSERT proposes
ownerInsertFields(owner) ==
  IF owner.userId # None THEN [device_id |-> "__user__", user_id |-> owner.userId]
  ELSE [device_id |-> owner.deviceId[1], user_id |-> None]

COALESCE(a, b) == IF a # None THEN a ELSE b

\* INSERT ... ON CONFLICT(device_id, translation, book, chapter) DO UPDATE SET
\*   data = excluded.data, updated_at = excluded.updated_at,
\*   user_id = COALESCE(excluded.user_id, user_id)
upsertChapterRow(table, ins, t, b, c, data, now) ==
  LET conflict == {r \in table : /\ r.device_id = ins.device_id /\ r.translation = t
                                 /\ r.book = b /\ r.chapter = c}
  IN IF conflict = {}
       THEN table \cup {[device_id |-> ins.device_id, user_id |-> ins.user_id,
                         translation |-> t, book |-> b, chapter |-> c,
                         data |-> data, updated_at |-> now]}
       ELSE (table \ conflict) \cup
            {[r EXCEPT !.data = data, !.updated_at = now,
                       !.user_id = COALESCE(ins.user_id, r.user_id)] : r \in conflict}

\* the same statement with ON CONFLICT(device_id), for symbols and memory
upsertOwnerRow(table, ins, data, now) ==
  LET conflict == {r \in table : r.device_id = ins.device_id}
  IN IF conflict = {}
       THEN table \cup {[device_id |-> ins.device_id, user_id |-> ins.user_id,
                         data |-> data, updated_at |-> now]}
       ELSE (table \ conflict) \cup
            {[r EXCEPT !.data = data, !.updated_at = now,
                       !.user_id = COALESCE(ins.user_id, r.user_id)] : r \in conflict}

\* SELECT ... WHERE <owner> AND translation = ? AND book = ? AND chapter = ?
selectChapterRows(table, owner, t, b, c) ==
  {r \in table : /\ ownerWhere(owner, r) /\ r.translation = t
                 /\ r.book = b /\ r.chapter = c}

backupKey(owner, t, b, c) ==
  <<"backup:markings:", COALESCE(owner.userId, owner.deviceId)[1], t, b, c>>

\* handleMarkings GET: first() returns one of the selected rows, or null
ServeMarkingsGet(msg) ==
  LET rows == selectChapterRows(markingsTable, msg.owner, msg.translation, msg.book,
                                msg.chapter)
  IN /\ msg \in net /\ msg.kind = "pull" /\ msg.stage = "req"
     /\ \/ /\ rows = {}
           /\ net' = (net \ {msg}) \cup {[msg EXCEPT !.stage = "resp", !.data = None]}
        \/ \E row \in rows :
             net' = (net \ {msg}) \cup
                    {[msg EXCEPT !.stage = "resp", !.data = Some(JSONParse(row.data))]}
     /\ UNCHANGED <<storeVars, clientVars, serverVars, opCount, histVars>>

isClearing(data) == data = None \/ Cardinality(Keys(data[1])) = 0

\* handleMarkings PUT, clearing: SELECT data FROM markings ... first()
ServeMarkingsPutSelect(msg) ==
  LET rows == selectChapterRows(markingsTable, msg.owner, msg.translation, msg.book,
                                msg.chapter)
  IN /\ msg \in net /\ msg.kind = "put" /\ msg.stage = "req"
     /\ isClearing(msg.data)
     /\ \/ /\ rows = {}
           /\ net' = (net \ {msg}) \cup {[msg EXCEPT !.stage = "selected", !.aux = None]}
        \/ \E row \in rows :
             net' = (net \ {msg}) \cup
                    {[msg EXCEPT !.stage = "selected", !.aux = Some(row.data)]}
     /\ UNCHANGED <<storeVars, clientVars, serverVars, opCount, histVars>>

needsBackup(msg) == msg.aux # None /\ Cardinality(Keys(JSONParse(msg.aux[1]))) > 0

\* handleMarkings PUT, clearing: CACHE.put(backupKey, existing.data)
ServeMarkingsPutBackup(msg) ==
  /\ msg \in net /\ msg.kind = "put" /\ msg.stage = "selected"
  /\ needsBackup(msg)
  /\ cache' = With(cache, backupKey(msg.owner, msg.translation, msg.book, msg.chapter),
                   msg.aux[1])
  /\ net' = (net \ {msg}) \cup {[msg EXCEPT !.stage = "backedup"]}
  /\ UNCHANGED <<storeVars, clientVars, accountVars, markingsTable, notesTable, symbolsTable,
                 memoryTable, opCount, histVars>>

\* handleMarkings PUT: the upsert; the client does not read the response
ServeMarkingsPutUpsert(msg, now) ==
  /\ msg \in net /\ msg.kind = "put"
  /\ \/ msg.stage = "req" /\ ~isClearing(msg.data)
     \/ msg.stage = "selected" /\ ~needsBackup(msg)
     \/ msg.stage = "backedup"
  /\ markingsTable' = upsertChapterRow(markingsTable, ownerInsertFields(msg.owner),
                                       msg.translation, msg.book, msg.chapter,
                                       JSONStringify(msg.data[1]), now)
  /\ net' = net \ {msg}
  /\ UNCHANGED <<storeVars, clientVars, accountVars, notesTable, symbolsTable, memoryTable, cache,
                 opCount, histVars>>

\* handleNotes PUT
ServeNotesPut(msg, now) ==
  /\ msg \in net /\ msg.kind = "putNotes" /\ msg.stage = "req"
  /\ notesTable' = upsertChapterRow(notesTable, ownerInsertFields(msg.owner),
                                    msg.translation, msg.book, msg.chapter,
                                    JSONStringify(msg.data[1]), now)
  /\ net' = net \ {msg}
  /\ UNCHANGED <<storeVars, clientVars, accountVars, markingsTable, symbolsTable, memoryTable, cache,
                 opCount, histVars>>

\* handleSymbols PUT
ServeSymbolsPut(msg, now) ==
  /\ msg \in net /\ msg.kind = "putSymbols" /\ msg.stage = "req"
  /\ symbolsTable' = upsertOwnerRow(symbolsTable, ownerInsertFields(msg.owner),
                                    JSONStringify(msg.data[1]), now)
  /\ net' = net \ {msg}
  /\ UNCHANGED <<storeVars, clientVars, accountVars, markingsTable, notesTable, memoryTable, cache,
                 opCount, histVars>>

\* handleMemory PUT
ServeMemoryPut(msg, now) ==
  /\ msg \in net /\ msg.kind = "putMemory" /\ msg.stage = "req"
  /\ memoryTable' = upsertOwnerRow(memoryTable, ownerInsertFields(msg.owner),
                                   JSONStringify(msg.data[1]), now)
  /\ net' = net \ {msg}
  /\ UNCHANGED <<storeVars, clientVars, accountVars, markingsTable, notesTable, symbolsTable, cache,
                 opCount, histVars>>

\* handleMarkingsBackup GET
ServeBackupGet(msg) ==
  LET key == backupKey(msg.owner, msg.translation, msg.book, msg.chapter)
  IN /\ msg \in net /\ msg.kind = "backupGet" /\ msg.stage = "req"
     /\ net' = (net \ {msg}) \cup
               {[msg EXCEPT !.stage = "resp",
                            !.data = IF key \in DOMAIN cache
                                       THEN Some(JSONParse(cache[key])) ELSE None]}
     /\ UNCHANGED <<storeVars, clientVars, serverVars, opCount, histVars>>

\* handleMarkingsBackup POST: CACHE.get(backupKey); 404 when there is none
ServeRestoreGet(msg) ==
  LET key == backupKey(msg.owner, msg.translation, msg.book, msg.chapter)
  IN /\ msg \in net /\ msg.kind = "restore" /\ msg.stage = "req"
     /\ net' = (net \ {msg}) \cup
               {IF key \in DOMAIN cache
                  THEN [msg EXCEPT !.stage = "got", !.aux = Some(cache[key])]
                  ELSE [msg EXCEPT !.stage = "resp", !.data = None]}
     /\ UNCHANGED <<storeVars, clientVars, serverVars, opCount, histVars>>

\* handleMarkingsBackup POST: the upsert of the backup into markings
ServeRestoreUpsert(msg, now) ==
  /\ msg \in net /\ msg.kind = "restore" /\ msg.stage = "got"
  /\ markingsTable' = upsertChapterRow(markingsTable, ownerInsertFields(msg.owner),
                                       msg.translation, msg.book, msg.chapter,
                                       msg.aux[1], now)
  /\ net' = (net \ {msg}) \cup {[msg EXCEPT !.stage = "upserted"]}
  /\ UNCHANGED <<storeVars, clientVars, accountVars, notesTable, symbolsTable, memoryTable, cache,
                 opCount, histVars>>

\* a restore that answers without deleting the backup
ServeRestoreKeeps(msg) ==
  /\ msg \in net /\ msg.kind = "restore" /\ msg.stage = "upserted"
  /\ net' = (net \ {msg}) \cup
            {[msg EXCEPT !.stage = "resp", !.data = Some(JSONParse(msg.aux[1])),
                         !.aux = None]}
  /\ UNCHANGED <<storeVars, clientVars, serverVars, opCount, histVars>>

\* handleMarkingsBackup POST: CACHE.delete(backupKey), then the response
ServeRestoreDelete(msg) ==
  LET key == backupKey(msg.owner, msg.translation, msg.book, msg.chapter)
  IN /\ msg \in net /\ msg.kind = "restore" /\ msg.stage = "upserted"
     /\ cache' = Without(cache, key)
     /\ net' = (net \ {msg}) \cup
               {[msg EXCEPT !.stage = "resp", !.data = Some(JSONParse(msg.aux[1])),
                            !.aux = None]}
     /\ UNCHANGED <<storeVars, clientVars, accountVars, markingsTable, notesTable, symbolsTable,
                    memoryTable, opCount, histVars>>

\* an UPDATE whose WHERE clause lacks `AND user_id IS NULL`
claimRowsOwned(table, userId, deviceId) ==
  {IF r.device_id = deviceId THEN [r EXCEPT !.user_id = Some(userId)] ELSE r : r \in table}

\* UPDATE <table> SET user_id = ? WHERE device_id = ? AND user_id IS NULL
claimRows(table, userId, deviceId) ==
  {IF r.device_id = deviceId /\ r.user_id = None THEN [r EXCEPT !.user_id = Some(userId)]
   ELSE r : r \in table}

ClaimTables == <<"markings", "symbols", "memory", "notes">>

\* handleClaimDevice: one UPDATE per table, in the order of ClaimTables; msg.calls is
\* the number of tables already updated and msg.aux the body { deviceId }
ServeClaimDevice(msg) ==
  LET table == ClaimTables[msg.calls + 1]
      u == msg.owner.userId[1]
      d == msg.aux[1][2]
      next == IF msg.calls + 1 = Len(ClaimTables) THEN {[msg EXCEPT !.stage = "resp"]}
              ELSE {[msg EXCEPT !.calls = msg.calls + 1]}
  IN /\ msg \in net /\ msg.kind = "claim" /\ msg.stage = "req"
     /\ msg.owner.userId # None
     /\ markingsTable' = IF table = "markings" THEN claimRows(markingsTable, u, d)
                         ELSE markingsTable
     /\ symbolsTable' = IF table = "symbols" THEN claimRows(symbolsTable, u, d)
                        ELSE symbolsTable
     /\ memoryTable' = IF table = "memory" THEN claimRows(memoryTable, u, d)
                       ELSE memoryTable
     /\ notesTable' = IF table = "notes" THEN claimRows(notesTable, u, d)
                      ELSE notesTable
     /\ net' = (net \ {msg}) \cup next
     /\ UNCHANGED <<storeVars, clientVars, accountVars, cache, opCount, histVars>>

\* handleClaimDevice: 401 for an owner that is not an account
ServeClaimRejected(msg) ==
  /\ msg \in net /\ msg.kind = "claim" /\ msg.stage = "req"
  /\ msg.owner.userId = None
  /\ net' = (net \ {msg}) \cup {[msg EXCEPT !.stage = "401"]}
  /\ UNCHANGED <<storeVars, clientVars, serverVars, opCount, histVars>>

----------------------------------------------------------------------------
(* authStore (src/unnamed/part_005): the session init of the page and the   *)
(* claim of the device.  "device-id" and "device-claimed" are entries of    *)
(* the browser storage next to the chapter entries; the `user` and          *)
(* `loading` fields of the store are not in the model.                      *)

DeviceIdKey == <<"device-id">>
DeviceClaimedKey == <<"device-claimed">>

\* claimDevice(), up to its await: no request without a stored device id
claimDevice(id, u) ==
  IF localStorage[DeviceIdKey] = None THEN net' = net
  ELSE net' = net \cup {[Msg(id, "claim", "req", UserOwner(u), "", 0, 0, None)
                          EXCEPT !.aux = Some(<<"deviceId", localStorage[DeviceIdKey][1]>>)]}

\* init(): the callback of authClient.getSession(); session is the user of the
\* session, or None when there is no session or the lookup failed
init(session) ==
  /\ Called
  /\ IF session # None THEN claimDevice(opCount', session[1]) ELSE net' = net
  /\ UNCHANGED <<storeVars, clientVars, serverVars, histVars>>

\* claimDevice() after its await: res.ok marks the device as claimed
ClaimResponse(msg) ==
  /\ msg \in net /\ msg.kind = "claim" /\ msg.stage \in {"resp", "401"}
  /\ net' = net \ {msg}
  /\ localStorage' = IF msg.stage = "resp"
                       THEN [localStorage EXCEPT ![DeviceClaimedKey] = Some("true")]
                       ELSE localStorage
  /\ UNCHANGED <<storeVars, quotaExceeded, timers, serverVars, opCount, histVars>>

\* fetch rejects (offline): the catch block of claimDevice is empty
ClaimFetchFails(msg) ==
  /\ msg \in net /\ msg.kind = "claim" /\ msg.stage = "req" /\ msg.calls = 0
  /\ net' = net \ {msg}
  /\ UNCHANGED <<storeVars, clientVars, serverVars, opCount, histVars>>

----------------------------------------------------------------------------
(* worker/index.ts: owner resolution, the gate of handleDataAPI and the     *)
(* handlers of an account.  A request arrives with the outcome its session  *)
(* lookup will have and with its X-Device-Id header; a request the worker   *)
(* has answered with 401 stays in net at stage "401".                       *)

DEVICE_ID_MAX == 64

\* auth.api.getSession: it throws, or returns no session, or the session of a user
SessionResults ==
  {[threw |-> TRUE, user |-> None], [threw |-> FALSE, user |-> None]}
    \cup {[threw |-> FALSE, user |-> Some(u)] : u \in Users}

RECURSIVE Repeat(_, _)
Repeat(text, n) == IF n = 0 THEN "" ELSE text \o Repeat(text, n - 1)

\* request.headers.get("X-Device-Id"): null, or the text of the header
DeviceHeaders ==
  {None, Some(""), Some(ClientDevice),
   Some(Repeat("d", DEVICE_ID_MAX)), Some(Repeat("d", DEVICE_ID_MAX + 1))}

Credentials == [session : SessionResults, deviceId : DeviceHeaders]

Unresolved == [userId |-> None, deviceId |-> None]

\* an order of the two lookups that prefers the device header
resolveOwnerDeviceFirst(session, deviceId) ==
  IF deviceId # None /\ deviceId[1] # "" /\ Len(deviceId[1]) <= DEVICE_ID_MAX
    THEN [userId |-> None, deviceId |-> deviceId]
  ELSE IF ~session.threw /\ session.user # None
    THEN [userId |-> session.user, deviceId |-> None]
  ELSE Unresolved

resolveOwner(session, deviceId) ==
  IF ~session.threw /\ session.user # None
    THEN [userId |-> session.user, deviceId |-> None]
  ELSE IF deviceId # None /\ deviceId[1] # "" /\ Len(deviceId[1]) <= DEVICE_ID_MAX
    THEN [userId |-> None, deviceId |-> deviceId]
  ELSE Unresolved

\* corsJson({ error }, 401)
Rejected(msg) == [msg EXCEPT !.stage = "401"]

\* a request for /api/data/... reaches the worker
Arrives(kind, cred, t, b, c, data, body) ==
  /\ Called
  /\ net' = net \cup {[Msg(opCount', kind, "arrive", Unresolved, t, b, c, data)
                        EXCEPT !.aux = body, !.cred = Some(cred)]}
  /\ UNCHANGED <<storeVars, clientVars, serverVars, histVars>>

\* handleDataAPI: await resolveOwner(request, env), and 401 for an owner with no id
ServeResolveOwner(msg) ==
  LET owner == resolveOwner(msg.cred[1].session, msg.cred[1].deviceId)
  IN /\ msg \in net /\ msg.stage = "arrive"
     /\ net' = (net \ {msg}) \cup
               {IF owner.userId = None /\ owner.deviceId = None THEN Rejected(msg)
                ELSE [msg EXCEPT !.stage = "owner", !.owner = owner]}
     /\ UNCHANGED <<storeVars, clientVars, serverVars, opCount, histVars>>

\* handleDataAPI: INSERT OR IGNORE INTO devices for a device owner, then the dispatch
ServeEnsureDevice(msg, now) ==
  /\ msg \in net /\ msg.stage = "owner"
  /\ devicesTable' =
       IF msg.owner.deviceId # None
            /\ \A row \in devicesTable : row.id # msg.owner.deviceId[1]
         THEN devicesTable \cup {[id |-> msg.owner.deviceId[1], created_at |-> now]}
         ELSE devicesTable
  /\ net' = (net \ {msg}) \cup {[msg EXCEPT !.stage = "req"]}
  /\ UNCHANGED <<storeVars, clientVars, markingsTable, notesTable, symbolsTable,
                 memoryTable, cache, preferencesTable, opCount, histVars>>

\* a handler of preferences that lets every owner in
accountOnlySkipped(owner) == FALSE

\* if (!owner.userId) return 401, in handlePreferences and handleDeleteAccount
accountOnly(owner) == owner.userId = None

ServePreferencesRejected(msg) ==
  /\ msg \in net /\ msg.kind \in {"prefsGet", "prefsPut"} /\ msg.stage = "req"
  /\ accountOnly(msg.owner)
  /\ net' = (net \ {msg}) \cup {Rejected(msg)}
  /\ UNCHANGED <<storeVars, clientVars, serverVars, opCount, histVars>>

\* handlePreferences GET: the row of the account, or null
ServePreferencesGet(msg) ==
  LET rows == {r \in preferencesTable : r.user_id = msg.owner.userId}
  IN /\ msg \in net /\ msg.kind = "prefsGet" /\ msg.stage = "req"
     /\ ~accountOnly(msg.owner)
     /\ \/ /\ rows = {}
           /\ net' = (net \ {msg}) \cup {[msg EXCEPT !.stage = "resp", !.data = None]}
        \/ \E row \in rows :
             net' = (net \ {msg}) \cup
                    {[msg EXCEPT !.stage = "resp", !.data = Some(JSONParse(row.data))]}
     /\ UNCHANGED <<storeVars, clientVars, serverVars, opCount, histVars>>

\* handlePreferences PUT: INSERT ... ON CONFLICT(user_id) DO UPDATE SET data, updated_at
ServePreferencesPut(msg, now) ==
  LET conflict == {r \in preferencesTable :
                     r.user_id # None /\ r.user_id = msg.owner.userId}
  IN /\ msg \in net /\ msg.kind = "prefsPut" /\ msg.stage = "req"
     /\ ~accountOnly(msg.owner)
     /\ preferencesTable' =
          IF conflict = {}
            THEN preferencesTable \cup
                 {[user_id |-> msg.owner.userId, data |-> JSONStringify(msg.data[1]),
                   updated_at |-> now]}
            ELSE (preferencesTable \ conflict) \cup
                 {[r EXCEPT !.data = JSONStringify(msg.data[1]), !.updated_at = now] :
                    r \in conflict}
     /\ net' = net \ {msg}
     /\ UNCHANGED <<storeVars, clientVars, markingsTable, notesTable, symbolsTable,
                    memoryTable, cache, devicesTable, opCount, histVars>>

ServeDeleteRejected(msg) ==
  /\ msg \in net /\ msg.kind = "deleteAccount" /\ msg.stage = "req"
  /\ accountOnly(msg.owner)
  /\ net' = (net \ {msg}) \cup {Rejected(msg)}
  /\ UNCHANGED <<storeVars, clientVars, serverVars, opCount, histVars>>

\* handleDeleteAccount: 400 unless the body is { confirm: "DELETE" }
ServeDeleteUnconfirmed(msg) ==
  /\ msg \in net /\ msg.kind = "deleteAccount" /\ msg.stage = "req"
  /\ ~accountOnly(msg.owner)
  /\ msg.aux[1][2] # "DELETE"
  /\ net' = (net \ {msg}) \cup {[msg EXCEPT !.stage = "400"]}
  /\ UNCHANGED <<storeVars, clientVars, serverVars, opCount, histVars>>

\* DELETE FROM <table> WHERE user_id = ?
deleteRows(table, userId) == {r \in table : userId = None \/ r.user_id # userId}

DeleteTables == <<"markings", "symbols", "memory", "notes", "preferences">>

\* handleDeleteAccount: one DELETE per data table, in the order of DeleteTables;
\* msg.calls is the number of tables already emptied of the account's rows.  The
\* tables of the sessions and of the accounts, emptied next, are not in the model.
ServeDeleteAccount(msg) ==
  LET table == DeleteTables[msg.calls + 1]
      u == msg.owner.userId
      next == IF msg.calls + 1 = Len(DeleteTables) THEN {}
              ELSE {[msg EXCEPT !.calls = msg.calls + 1]}
  IN /\ msg \in net /\ msg.kind = "deleteAccount" /\ msg.stage = "req"
     /\ ~accountOnly(msg.owner)
     /\ msg.aux[1][2] = "DELETE"
     /\ markingsTable' = IF table = "markings" THEN deleteRows(markingsTable, u)
                         ELSE markingsTable
     /\ symbolsTable' = IF table = "symbols" THEN deleteRows(symbolsTable, u)
                        ELSE symbolsTable
     /\ memoryTable' = IF table = "memory" THEN deleteRows(memoryTable, u)
                       ELSE memoryTable
     /\ notesTable' = IF table = "notes" THEN deleteRows(notesTable, u)
                      ELSE notesTable
     /\ preferencesTable' = IF table = "preferences" THEN deleteRows(preferencesTable, u)
                            ELSE preferencesTable
     /\ net' = (net \ {msg}) \cup next
     /\ UNCHANGED <<storeVars, clientVars, cache, devicesTable, opCount, histVars>>

----------------------------------------------------------------------------
(* Requests of other clients of the data API *)

Payloads ==
  {EmptyMap,
   [key \in {wordKey(1, 0)} |-> [x \in {"highlight"} |-> Layer("#ff0000", 1)]]}

\* a PUT of owner to /api/data/<family>
SendPut(owner, kind, t, b, c, data) ==
  /\ Called
  /\ net' = net \cup {Msg(opCount', kind, "req", owner, t, b, c, Some(data))}
  /\ UNCHANGED <<storeVars, clientVars, serverVars, histVars>>

\* a POST of owner to /api/data/claim-device with body { deviceId }
SendClaim(owner, deviceId) ==
  /\ Called
  /\ net' = net \cup {[Msg(opCount', "claim", "req", owner, "", 0, 0, None)
                        EXCEPT !.aux = Some(<<"deviceId", deviceId>>)]}
  /\ UNCHANGED <<storeVars, clientVars, serverVars, histVars>>

----------------------------------------------------------------------------
(* The specifications *)

\* the store as create() builds it, with no timer set and no request in flight
StoreInit ==
  /\ translation = "" /\ book = 0 /\ chapter = 0
  /\ markings = EmptyMap
  /\ undoStack = <<>> /\ redoStack = <<>>
  /\ lastAction = None
  /\ hasCloudBackup = FALSE
  /\ quotaExceeded = FALSE
  /\ timers = {}
  /\ net = {}
  /\ opCount = 0
  /\ baseMap = EmptyMap /\ nMut = 0 /\ archived = NoArchive

\* What an earlier session left behind: it marked two words of a chapter and then
\* cleared the chapter, so the local entry holds the empty map.  Either both PUTs
\* reached the worker (the row holds the empty map, the cache the backup), or the
\* clearing PUT failed (the row still holds the two words).
PriorChapter == <<"ESV", 1, 2>>
PriorMap ==
  [key \in {wordKey(1, 0), wordKey(2, 0)} |->
     IF key = wordKey(1, 0) THEN [x \in {"highlight"} |-> Layer("#ff0000", 1)]
     ELSE [x \in {"symbol"} |-> Layer("Cross|#dc2626|fill", 1)]]
PriorKey == StorageKey(PriorChapter[1], PriorChapter[2], PriorChapter[3])
PriorRow(map) ==
  [device_id |-> ClientDevice, user_id |-> None, translation |-> PriorChapter[1],
   book |-> PriorChapter[2], chapter |-> PriorChapter[3],
   data |-> JSONStringify(map), updated_at |-> 1]
\* the row of devices that the first request of the earlier session inserted
PriorDevice == [id |-> ClientDevice, created_at |-> 1]
PriorBackupKey == backupKey(ClientOwner, PriorChapter[1], PriorChapter[2], PriorChapter[3])

Init ==
  /\ StoreInit
  /\ localStorage = [k \in StorageKeys |->
                       IF k = PriorKey THEN Some(JSONStringify(EmptyMap)) ELSE None]
  /\ notesTable = {} /\ symbolsTable = {} /\ memoryTable = {}
  /\ preferencesTable = {} /\ devicesTable = {PriorDevice}
  /\ \/ /\ markingsTable = {PriorRow(EmptyMap)}
        /\ cache = [k \in {PriorBackupKey} |-> JSONStringify(PriorMap)]
     \/ /\ markingsTable = {PriorRow(PriorMap)}
        /\ cache = <<>>

\* the reader calls loadChapter when it mounts, before any word can be marked
ChapterLoaded == translation # ""

TypeArgs == {None} \cup {Some(type) : type \in UsedTypes}

\* the calls of the user, while fewer than `limit` calls have been made
UserLoadChapter(limit) ==
  /\ opCount < limit
  /\ \E t \in Translations, b \in Books, c \in ChapterNumbers : loadChapter(t, b, c)
UserAddMarking(limit) ==
  /\ opCount < limit /\ ChapterLoaded
  /\ \E verse \in Verses, wordIndex \in WordIndexes, type \in UsedTypes, now \in Times :
       \E value \in ValuesOf(type) : addMarking(verse, wordIndex, type, value, now)
UserRemoveMarking(limit) ==
  /\ opCount < limit /\ ChapterLoaded
  /\ \E verse \in Verses, wordIndex \in WordIndexes, type \in TypeArgs :
       removeMarking(verse, wordIndex, type)
UserClearChapter(limit) == opCount < limit /\ ChapterLoaded /\ clearChapter
UserClearVerse(limit) ==
  opCount < limit /\ ChapterLoaded /\ \E verse \in Verses : clearVerse(verse)
UserClearSymbol(limit) ==
  /\ opCount < limit /\ ChapterLoaded
  /\ \E symbol \in ValuesOf("symbol") : clearSymbolInChapter(symbol)
UserUndo(limit) == opCount < limit /\ ChapterLoaded /\ undo
UserRedo(limit) == opCount < limit /\ ChapterLoaded /\ redo
UserRestore(limit) == opCount < limit /\ ChapterLoaded /\ restoreFromBackup

\* the steps of the client that no call of the user starts
DebounceElapses == \E timer \in timers : TimerFires(timer)
CheckTimeoutElapses == \E msg \in net : CheckTimerFires(msg)
FetchRejects == \E msg \in net : FetchFails(msg)
PullResolves == \E msg \in net : PullResponse(msg)
BackupResolves == \E msg \in net : BackupResponse(msg)
RestoreResolves == \E msg \in net : RestoreResponse(msg)

\* the steps of the worker
MarkingsGet == \E msg \in net : ServeMarkingsGet(msg)
MarkingsPutSelect == \E msg \in net : ServeMarkingsPutSelect(msg)
MarkingsPutBackup == \E msg \in net : ServeMarkingsPutBackup(msg)
MarkingsPutUpsert == \E msg \in net, now \in Times : ServeMarkingsPutUpsert(msg, now)
NotesPut == \E msg \in net, now \in Times : ServeNotesPut(msg, now)
SymbolsPut == \E msg \in net, now \in Times : ServeSymbolsPut(msg, now)
MemoryPut == \E msg \in net, now \in Times : ServeMemoryPut(msg, now)
BackupGet == \E msg \in net : ServeBackupGet(msg)
RestoreGet == \E msg \in net : ServeRestoreGet(msg)
RestoreUpsert == \E msg \in net, now \in Times : ServeRestoreUpsert(msg, now)
RestoreDelete == \E msg \in net : ServeRestoreDelete(msg)
ClaimDevice == \E msg \in net : ServeClaimDevice(msg)
ClaimRejected == \E msg \in net : ServeClaimRejected(msg)

Next ==
  \/ UserLoadChapter(MaxOps)
  \/ UserAddMarking(MaxOps)
  \/ UserRemoveMarking(MaxOps)
  \/ UserClearChapter(MaxOps)
  \/ UserClearVerse(MaxOps)
  \/ UserClearSymbol(MaxOps)
  \/ UserUndo(MaxOps)
  \/ UserRedo(MaxOps)
  \/ UserRestore(MaxOps)
  \/ DebounceElapses
  \/ CheckTimeoutElapses
  \/ FetchRejects
  \/ PullResolves
  \/ BackupResolves
  \/ RestoreResolves
  \/ MarkingsGet
  \/ MarkingsPutSelect
  \/ MarkingsPutBackup
  \/ MarkingsPutUpsert
  \/ BackupGet
  \/ RestoreGet
  \/ RestoreUpsert
  \/ RestoreDelete

Spec == Init /\ [][Next]_vars

----------------------------------------------------------------------------
(* SpecHistory: the store and its history, from a chapter that is loaded.   *)
(* It starts either right after loadChapter of the chapter the earlier      *)
(* session cleared (the worker holds its backup), or SeedDepth addMarking   *)
(* calls later, the i-th of them made at time i and all of them pushed.     *)

SeedKey == wordKey(1, 0)
SeedMap(i) ==
  IF i = 0 THEN EmptyMap
  ELSE [key \in {SeedKey} |-> [x \in {"highlight"} |-> Layer("#ff0000", i)]]

InitHistory ==
  \E depth \in {0, SeedDepth} :
    /\ translation = PriorChapter[1] /\ book = PriorChapter[2] /\ chapter = PriorChapter[3]
    /\ markings = SeedMap(depth)
    /\ undoStack = [i \in 1 .. depth |-> SeedMap(i - 1)]
    /\ redoStack = <<>>
    /\ lastAction = IF depth = 0 THEN None ELSE Some("Applied highlight")
    /\ hasCloudBackup = TRUE
    /\ localStorage = [k \in StorageKeys |->
                         IF k = PriorKey THEN Some(JSONStringify(SeedMap(depth))) ELSE None]
    /\ quotaExceeded = FALSE
    /\ timers = {}
    /\ net = {}
    /\ markingsTable = {PriorRow(SeedMap(depth))}
    /\ notesTable = {} /\ symbolsTable = {} /\ memoryTable = {}
    /\ preferencesTable = {} /\ devicesTable = {PriorDevice}
    /\ cache = [k \in {PriorBackupKey} |-> JSONStringify(PriorMap)]
    /\ opCount = 0
    /\ baseMap = EmptyMap /\ nMut = depth /\ archived = NoArchive

NextHistory ==
  \/ UserLoadChapter(MaxHistoryOps)
  \/ UserAddMarking(MaxHistoryOps)
  \/ UserRemoveMarking(MaxHistoryOps)
  \/ UserClearChapter(MaxHistoryOps)
  \/ UserClearVerse(MaxHistoryOps)
  \/ UserClearSymbol(MaxHistoryOps)
  \/ UserUndo(MaxHistoryOps)
  \/ UserRedo(MaxHistoryOps)
  \/ UserRestore(MaxHistoryOps)
  \/ RestoreGet
  \/ RestoreUpsert
  \/ RestoreDelete
  \/ RestoreResolves

SpecHistory == InitHistory /\ [][NextHistory]_vars

----------------------------------------------------------------------------
(* SpecToolbar: the toolbar at work on a selection of the loaded chapter,   *)
(* with undo and redo.                                                      *)

UnderlineStyles == {"single"}
Colors == {"#ff0000"}

UserApplyHighlight ==
  /\ opCount < MaxToolbarOps
  /\ \E anchor \in WordIds, focus \in WordIds, color \in Colors, now \in Times :
       applyHighlight(getSelectedWords(anchor, focus), color, now)
UserApplyUnderline ==
  /\ opCount < MaxToolbarOps
  /\ \E anchor \in WordIds, focus \in WordIds, now \in Times :
       \E style \in UnderlineStyles, color \in Colors :
         applyUnderline(getSelectedWords(anchor, focus), style, color, now)
UserApplySymbol ==
  /\ opCount < MaxToolbarOps
  /\ \E anchor \in WordIds, focus \in WordIds, now \in Times :
       \E symbolValue \in ValuesOf("symbol") :
         applySymbol(getSelectedWords(anchor, focus), symbolValue, now)
UserRemoveFromSelection ==
  /\ opCount < MaxToolbarOps
  /\ \E anchor \in WordIds, focus \in WordIds :
       /\ markedOf(getSelectedWords(anchor, focus)) # <<>>
       /\ removeFromSelection(getSelectedWords(anchor, focus))

NextToolbar ==
  \/ UserApplyHighlight
  \/ UserApplyUnderline
  \/ UserApplySymbol
  \/ UserRemoveFromSelection
  \/ UserUndo(MaxToolbarOps)
  \/ UserRedo(MaxToolbarOps)

SpecToolbar == InitHistory /\ [][NextToolbar]_vars

----------------------------------------------------------------------------
(* SpecServer: the data API under requests of any owners *)

OtherPutMarkings ==
  /\ opCount < MaxRequests
  /\ \E owner \in Owners, c \in ChapterNumbers, data \in Payloads :
       SendPut(owner, "put", "ESV", 1, c, data)
OtherPutNotes ==
  /\ opCount < MaxRequests
  /\ \E owner \in Owners, data \in Payloads \ {EmptyMap} :
       SendPut(owner, "putNotes", "ESV", 1, 1, data)
OtherPutSymbols ==
  /\ opCount < MaxRequests
  /\ \E owner \in Owners, data \in Payloads \ {EmptyMap} :
       SendPut(owner, "putSymbols", "", 0, 0, data)
OtherPutMemory ==
  /\ opCount < MaxRequests
  /\ \E owner \in Owners, data \in Payloads \ {EmptyMap} :
       SendPut(owner, "putMemory", "", 0, 0, data)
OtherClaim ==
  /\ opCount < MaxRequests
  /\ \E owner \in Owners, d \in Devices : SendClaim(owner, d)

NextServer ==
  \/ OtherPutMarkings
  \/ OtherPutNotes
  \/ OtherPutSymbols
  \/ OtherPutMemory
  \/ OtherClaim
  \/ MarkingsPutSelect
  \/ MarkingsPutBackup
  \/ MarkingsPutUpsert
  \/ NotesPut
  \/ SymbolsPut
  \/ MemoryPut
  \/ ClaimDevice
  \/ ClaimRejected

\* the tables and the cache of a worker that has served no request
InitServer ==
  /\ StoreInit
  /\ localStorage = [k \in StorageKeys |-> None]
  /\ markingsTable = {} /\ notesTable = {} /\ symbolsTable = {} /\ memoryTable = {}
  /\ preferencesTable = {}
  /\ devicesTable = {[id |-> d, created_at |-> 1] : d \in Devices}
  /\ cache = <<>>

SpecServer == InitServer /\ [][NextServer]_vars

----------------------------------------------------------------------------
(* SpecAuth: the data API from the arrival of a request, with any           *)
(* credentials, to its answer.                                              *)

PutKinds == {"put", "putNotes", "putSymbols", "putMemory"}

ArrivesPut ==
  /\ opCount < MaxAuthRequests
  /\ \E cred \in Credentials, kind \in PutKinds, data \in Payloads :
       /\ kind = "put" \/ data # EmptyMap
       /\ IF kind \in {"put", "putNotes"}
            THEN Arrives(kind, cred, "ESV", 1, 1, Some(data), None)
            ELSE Arrives(kind, cred, "", 0, 0, Some(data), None)
ArrivesClaim ==
  /\ opCount < MaxAuthRequests
  /\ \E cred \in Credentials, d \in Devices :
       Arrives("claim", cred, "", 0, 0, None, Some(<<"deviceId", d>>))
ArrivesPreferences ==
  /\ opCount < MaxAuthRequests
  /\ \E cred \in Credentials :
       \/ Arrives("prefsGet", cred, "", 0, 0, None, None)
       \/ \E data \in Payloads \ {EmptyMap} :
            Arrives("prefsPut", cred, "", 0, 0, Some(data), None)
ArrivesDelete ==
  /\ opCount < MaxAuthRequests
  /\ \E cred \in Credentials, confirm \in {"DELETE", ""} :
       Arrives("deleteAccount", cred, "", 0, 0, None, Some(<<"confirm", confirm>>))

ResolveOwner == \E msg \in net : ServeResolveOwner(msg)
EnsureDevice == \E msg \in net, now \in Times : ServeEnsureDevice(msg, now)
PreferencesRejected == \E msg \in net : ServePreferencesRejected(msg)
PreferencesGet == \E msg \in net : ServePreferencesGet(msg)
PreferencesPut == \E msg \in net, now \in Times : ServePreferencesPut(msg, now)
DeleteRejected == \E msg \in net : ServeDeleteRejected(msg)
DeleteUnconfirmed == \E msg \in net : ServeDeleteUnconfirmed(msg)
DeleteAccount == \E msg \in net : ServeDeleteAccount(msg)

NextAuth ==
  \/ ArrivesPut
  \/ ArrivesClaim
  \/ ArrivesPreferences
  \/ ArrivesDelete
  \/ ResolveOwner
  \/ EnsureDevice
  \/ MarkingsPutSelect
  \/ MarkingsPutBackup
  \/ MarkingsPutUpsert
  \/ NotesPut
  \/ SymbolsPut
  \/ MemoryPut
  \/ ClaimDevice
  \/ ClaimRejected
  \/ PreferencesRejected
  \/ PreferencesGet
  \/ PreferencesPut
  \/ DeleteRejected
  \/ DeleteUnconfirmed
  \/ DeleteAccount

\* a worker that has served no request
InitAuth ==
  /\ StoreInit
  /\ localStorage = [k \in StorageKeys |-> None]
  /\ markingsTable = {} /\ notesTable = {} /\ symbolsTable = {} /\ memoryTable = {}
  /\ preferencesTable = {} /\ devicesTable = {}
  /\ cache = <<>>

SpecAuth == InitAuth /\ [][NextAuth]_vars

----------------------------------------------------------------------------
(* SpecStorage: the store over a browser storage that holds, for each       *)
(* chapter, no entry, a text that does not parse, or the text of a map      *)
(* whose entries are in the legacy shape, in the current shape, or both;    *)
(* the quota of the storage comes and goes.                                 *)

\* an entry as an earlier version wrote it: { id, type, value, createdAt }
LegacyEntry(type, value, createdAt) ==
  [id |-> "m1", type |-> type, value |-> value, createdAt |-> createdAt]

CurrentEntry == [x \in {"highlight"} |-> Layer("#ff0000", 1)]

LegacyMap == [key \in {wordKey(1, 0)} |-> LegacyEntry("symbol", "Cross|#dc2626|fill", 1)]
MixedMap ==
  [key \in {wordKey(1, 0), wordKey(2, 0)} |->
     IF key = wordKey(1, 0) THEN LegacyEntry("highlight", "#ff0000", 1) ELSE CurrentEntry]
CurrentMap == [key \in {wordKey(2, 0)} |-> CurrentEntry]

\* a text on which JSON.parse throws
CorruptText == <<"text", <<>>>>

StoredTexts ==
  {None, Some(CorruptText), Some(JSONStringify(LegacyMap)),
   Some(JSONStringify(MixedMap)), Some(JSONStringify(CurrentMap))}

\* the storage fills up, or another page frees it
QuotaChanges ==
  /\ quotaExceeded' = ~quotaExceeded
  /\ UNCHANGED <<storeVars, localStorage, timers, net, serverVars, opCount, histVars>>

InitStorage ==
  /\ StoreInit
  /\ localStorage \in [StorageKeys -> StoredTexts]
  /\ markingsTable = {} /\ notesTable = {} /\ symbolsTable = {} /\ memoryTable = {}
  /\ preferencesTable = {} /\ devicesTable = {}
  /\ cache = <<>>

NextStorage ==
  \/ UserLoadChapter(MaxStorageOps)
  \/ UserAddMarking(MaxStorageOps)
  \/ UserRemoveMarking(MaxStorageOps)
  \/ UserClearChapter(MaxStorageOps)
  \/ UserUndo(MaxStorageOps)
  \/ UserRedo(MaxStorageOps)
  \/ QuotaChanges

SpecStorage == InitStorage /\ [][NextStorage]_vars

----------------------------------------------------------------------------
(* SpecClaim: session inits of a page whose device wrote a chapter before,  *)
(* with or without a stored device id, and the worker's answers.            *)

SessionInit ==
  /\ opCount < MaxSessionInits
  /\ \E session \in {None} \cup {Some(u) : u \in Users} : init(session)
ClaimResolves == \E msg \in net : ClaimResponse(msg)
ClaimFails == \E msg \in net : ClaimFetchFails(msg)

InitClaim ==
  /\ StoreInit
  /\ \E deviceId \in {None, Some(ClientDevice)}, entry \in {None, Some(JSONStringify(PriorMap))} :
       localStorage = [k \in StorageKeys \cup {DeviceIdKey, DeviceClaimedKey} |->
                         IF k = DeviceIdKey THEN deviceId
                         ELSE IF k = PriorKey THEN entry ELSE None]
  /\ markingsTable \in {{}, {PriorRow(PriorMap)}}
  /\ notesTable = {} /\ symbolsTable = {} /\ memoryTable = {}
  /\ preferencesTable = {} /\ devicesTable = {PriorDevice}
  /\ cache = <<>>

NextClaim ==
  \/ SessionInit
  \/ ClaimDevice
  \/ ClaimResolves
  \/ ClaimFails

SpecClaim == InitClaim /\ [][NextClaim]_vars

----------------------------------------------------------------------------
(* SpecKeys: the client, its timers and the worker, from a page that has a  *)
(* chapter loaded, so that a behaviour has calls on two chapters.           *)

NextKeys ==
  \/ UserLoadChapter(MaxKeyOps)
  \/ UserAddMarking(MaxKeyOps)
  \/ UserRemoveMarking(MaxKeyOps)
  \/ UserClearChapter(MaxKeyOps)
  \/ UserUndo(MaxKeyOps)
  \/ UserRedo(MaxKeyOps)
  \/ DebounceElapses
  \/ FetchRejects
  \/ PullResolves
  \/ MarkingsGet
  \/ MarkingsPutSelect
  \/ MarkingsPutBackup
  \/ MarkingsPutUpsert

\* a timer that is set runs its callback: the page stays open
SpecKeys == InitHistory /\ [][NextKeys]_vars /\ WF_vars(DebounceElapses)

----------------------------------------------------------------------------
(* SpecRestore: the calls of SpecHistory with requests that can fail, so    *)
(* that a restore meets a full undo stack, a lost answer and a worker that  *)
(* has no snapshot.                                                         *)

NextRestore ==
  \/ NextHistory
  \/ FetchRejects

SpecRestore == InitHistory /\ [][NextRestore]_vars

----------------------------------------------------------------------------
(* Properties of the history stacks (checked under SpecHistory)            *)

\* n calls of undo, each on the result of the one before; once a call finds its
\* stack empty, so do the calls after it
RECURSIVE undoTimes(_, _)
undoTimes(n, st) ==
  IF n = 0 THEN st
  ELSE LET next == undoState(st)
       IN IF next = st THEN st ELSE undoTimes(n - 1, next)

RECURSIVE redoTimes(_, _)
redoTimes(n, st) ==
  IF n = 0 THEN st
  ELSE LET next == redoState(st)
       IN IF next = st THEN st ELSE redoTimes(n - 1, next)

\* C2 (undo/redo inverse law): after n consecutive state-changing mutations of
\* one chapter, 1 <= n <= 50, none of them a load, a merge or a restore, n undos
\* all find a snapshot and bring back the map the first mutation started from, and
\* n redos after them bring back the map the last mutation left.
C2_UndoRedoInverse ==
  nMut \in 1 .. MAX_UNDO
    => LET undone == undoTimes(nMut, History)
       IN /\ Len(undoStack) >= nMut
          /\ undone.markings = baseMap
          /\ redoTimes(nMut, undone).markings = markings

\* fifty mutations in a row have been made, and they changed the map
C2_Witness ==
  nMut = MAX_UNDO /\ Len(undoStack) = MAX_UNDO /\ baseMap # markings

\* a step of a state-changing mutation
StateChangingMutation ==
  \/ \E verse \in Verses, wordIndex \in WordIndexes, type \in UsedTypes, now \in Times :
       \E value \in ValuesOf(type) : addMarking(verse, wordIndex, type, value, now)
  \/ \E verse \in Verses, wordIndex \in WordIndexes, type \in TypeArgs :
       /\ wordKey(verse, wordIndex) \in Keys(markings)
       /\ removeMarking(verse, wordIndex, type)
  \/ clearChapter
  \/ \E verse \in Verses : clearVerse(verse)
  \/ \E symbol \in ValuesOf("symbol") : clearSymbolInChapter(symbol)
  \/ \E msg \in net : msg.data # None /\ RestoreResponse(msg)

\* C3 (redo invalidation): a state-changing mutation leaves the redo stack empty,
\* so that a redo right after it changes nothing; redo on an empty redo stack and
\* undo on an empty undo stack leave the map and both stacks as they are.
C3_RedoInvalidated ==
  /\ [][StateChangingMutation
          => (redoStack' = <<>> /\ redoState(History') = History')]_vars
  /\ [][(redo /\ redoStack = <<>>) => UNCHANGED <<markings, undoStack, redoStack>>]_vars
  /\ [][(undo /\ undoStack = <<>>) => UNCHANGED <<markings, undoStack, redoStack>>]_vars

\* an undo has filled the redo stack, and the answer of a restore is on its way
C3_Witness ==
  /\ redoStack # <<>>
  /\ \E msg \in net : msg.kind = "restore" /\ msg.stage = "resp" /\ msg.data # None

\* C4 (bounded history): neither stack ever holds more than 50 snapshots, and a
\* mutation that pushes onto an undo stack of 50 drops the oldest snapshot and
\* puts the map it replaces on top.
C4_BoundedHistory ==
  /\ [](Len(undoStack) <= MAX_UNDO /\ Len(redoStack) <= MAX_UNDO)
  /\ [][(StateChangingMutation /\ Len(undoStack) = MAX_UNDO)
          => undoStack' = Append(Tail(undoStack), markings)]_vars

\* the undo stack is full after 51 mutations in a row: the first snapshot is gone
C4_Witness ==
  Len(undoStack) = MAX_UNDO /\ nMut > MAX_UNDO /\ undoStack[1] = SeedMap(1)

\* no record of the map is empty
NoEmptyRecord(m) == \A key \in Keys(m) : DOMAIN m[key] \cap MarkingTypes # {}

C5_Pruned ==
  /\ NoEmptyRecord(markings)
  /\ \A k \in StorageKeys :
       localStorage[k] # None => NoEmptyRecord(JSONParse(localStorage[k][1]))
  /\ \A timer \in timers : NoEmptyRecord(timer.data)
  /\ \A msg \in net : msg.kind = "put" => NoEmptyRecord(msg.data[1])

\* the record of key after its layer `type` was taken away
LayerRemoved(key, type) ==
  IF DOMAIN markings[key] \subseteq {type}
    THEN key \notin Keys(markings')
    ELSE /\ key \in Keys(markings')
         /\ DOMAIN markings'[key] = DOMAIN markings[key] \ {type}
         /\ \A layer \in DOMAIN markings'[key] : markings'[key][layer] = markings[key][layer]

C5_RemoveRule ==
  \A verse \in Verses, wordIndex \in WordIndexes, type \in UsedTypes :
    (wordKey(verse, wordIndex) \in Keys(markings)
       /\ removeMarking(verse, wordIndex, Some(type)))
      => /\ LayerRemoved(wordKey(verse, wordIndex), type)
         /\ \A key \in Keys(markings) \ {wordKey(verse, wordIndex)} :
              key \in Keys(markings') /\ markings'[key] = markings[key]

C5_ClearSymbolRule ==
  \A symbol \in ValuesOf("symbol") :
    clearSymbolInChapter(symbol)
      => /\ Keys(markings') \subseteq Keys(markings)
         /\ \A key \in Keys(markings) :
              IF "symbol" \in DOMAIN markings[key] /\ markings[key]["symbol"].value = symbol
                THEN LayerRemoved(key, "symbol")
                ELSE key \in Keys(markings') /\ markings'[key] = markings[key]

\* C5 (prune invariant): after any sequence of mutations, undos and redos no
\* record without a layer is in the map, in an entry of the local store or in a
\* payload handed to the push; removeMarking with a type and
\* clearSymbolInChapter delete a key whose only layer they take away and keep
\* any other key they touch with exactly its remaining layers.
C5_PruneInvariant ==
  /\ []C5_Pruned
  /\ [][C5_RemoveRule /\ C5_ClearSymbolRule]_vars

\* a word had two layers; removeMarking took one and kept the record, then took
\* the other and deleted the key
C5_Witness ==
  /\ lastAction = Some("Removed symbol") /\ Len(undoStack) >= 2
  /\ \E key \in Keys(Last(undoStack)) :
       /\ key \notin Keys(markings)
       /\ DOMAIN Last(undoStack)[key] = {"symbol"}
       /\ key \in Keys(Last(Front(undoStack)))
       /\ DOMAIN Last(Front(undoStack))[key] = {"symbol", "highlight"}

\* C14 (per-chapter history retention): loadChapter(K) puts the stacks of the
\* chapter it leaves aside and brings back the stacks last put aside for K, so
\* that after a mutation of chapter A, a visit of chapter B and the return to A
\* the undo stack of A is not empty and undo reverts A's last mutation.
C14_HistoryRetained ==
  [][\A t \in Translations, b \in Books, c \in ChapterNumbers :
       (loadChapter(t, b, c) /\ <<t, b, c>> # <<translation, book, chapter>>)
         => /\ undoStack' = archived'[<<t, b, c>>].undoStack
            /\ redoStack' = archived'[<<t, b, c>>].redoStack]_vars

----------------------------------------------------------------------------
(* Properties of the worker's tables (checked under SpecServer)            *)

\* the rows of a chapter table are told apart by their primary key
SameChapterRow(r1, r2) ==
  /\ r1.device_id = r2.device_id /\ r1.translation = r2.translation
  /\ r1.book = r2.book /\ r1.chapter = r2.chapter

\* the rows of symbols and of memory are told apart by device_id
SameOwnerRow(r1, r2) == r1.device_id = r2.device_id

\* no row of the table that has an account owner gets another one in this step
ChapterOwnersKept(table, table2) ==
  \A r1 \in table, r2 \in table2 :
    (SameChapterRow(r1, r2) /\ r1.user_id # None) => r2.user_id = r1.user_id

OwnersKept(table, table2) ==
  \A r1 \in table, r2 \in table2 :
    (SameOwnerRow(r1, r2) /\ r1.user_id # None) => r2.user_id = r1.user_id

\* C9 (upsert preserves owner): in every family, no PUT and no claim changes the
\* user_id of a row that already has one; user_id is set only where it was unset.
C9_OwnerPreserved ==
  [][/\ ChapterOwnersKept(markingsTable, markingsTable')
     /\ ChapterOwnersKept(notesTable, notesTable')
     /\ OwnersKept(symbolsTable, symbolsTable')
     /\ OwnersKept(memoryTable, memoryTable')]_vars

\* the claims of an account that the worker is serving
ClaimsInService == {msg \in net : msg.kind = "claim" /\ msg.stage = "req"
                                  /\ msg.owner.userId # None}

\* the table of the given name, before and after the step
TableNow(name) ==
  CASE name = "markings" -> markingsTable [] name = "symbols" -> symbolsTable
    [] name = "memory" -> memoryTable [] name = "notes" -> notesTable
TableNext(name) ==
  CASE name = "markings" -> markingsTable' [] name = "symbols" -> symbolsTable'
    [] name = "memory" -> memoryTable' [] name = "notes" -> notesTable'

\* the rows a claim of device d may take: those of d that have no account
Claimable(table, d) == {r \in table : r.device_id = d /\ r.user_id = None}

\* one UPDATE of a claim: the claimable rows of the table it is at get the
\* account, every other row of every table stays as it is
C11_ClaimStep(msg) ==
  LET name == ClaimTables[msg.calls + 1]
      takes == Claimable(TableNow(name), msg.aux[1][2])
  IN msg \notin net'
       => /\ TableNext(name) =
               (TableNow(name) \ takes)
                 \cup {[r EXCEPT !.user_id = msg.owner.userId] : r \in takes}
          /\ \A other \in {"markings", "symbols", "memory", "notes"} \ {name} :
               TableNext(other) = TableNow(other)
          /\ (takes = {} => TableNext(name) = TableNow(name))

\* a second run of the same UPDATE right after the first changes no row
C11_SecondRun ==
  \A u \in Users, d \in Devices :
    \A name \in {"markings", "symbols", "memory", "notes"} :
      LET once == claimRows(TableNow(name), u, d)
      IN Claimable(once, d) = {} /\ claimRows(once, u, d) = once

\* C11 (claim idempotence): a device claim sets user_id on exactly the rows of
\* markings, symbols, memory and notes that have the device's id and no
\* account; a row that has an account is never changed; the same claim run
\* again with no write in between changes no row.
C11_ClaimIdempotent ==
  /\ [][\A msg \in ClaimsInService : C11_ClaimStep(msg)]_vars
  /\ []C11_SecondRun

\* a device's row has been claimed by one account, and the claim of another
\* account for the same device is being served
C11_Witness ==
  \E msg \in ClaimsInService, r \in markingsTable :
    /\ r.device_id = msg.aux[1][2] /\ r.user_id # None
    /\ r.user_id # msg.owner.userId /\ msg.calls = 0

\* one UPDATE of a claim, as the claim about content has it: each row it takes is
\* there afterwards with the account and with the same key, data and timestamp;
\* after the UPDATE of markings, whatever row a GET of the account selects for the
\* chapter of a taken row holds the data the device wrote; the map and the local
\* store of the client are as before
C18_ClaimStep(msg) ==
  LET name == ClaimTables[msg.calls + 1]
      takes == Claimable(TableNow(name), msg.aux[1][2])
  IN msg \notin net'
       => /\ \A r \in takes : [r EXCEPT !.user_id = msg.owner.userId] \in TableNext(name)
          /\ name = "markings" =>
               \A r \in takes :
                 \A got \in selectChapterRows(markingsTable', msg.owner, r.translation,
                                              r.book, r.chapter) :
                   got.data = r.data
          /\ UNCHANGED <<markings, localStorage>>

\* C18 (the claim preserves content): a device claim changes only user_id on the
\* rows it takes; a markings GET of the claiming account then returns the map the
\* device wrote; the client's map and local store are unchanged by the claim.
C18_ClaimPreservesContent == [][\A msg \in ClaimsInService : C18_ClaimStep(msg)]_vars

\* the markings PUTs the worker has not finished
PutsInService == {msg \in net : msg.kind = "put"}

\* the rows of the PUT's owner and chapter whose stored map has a key
StoredNonEmpty(msg) ==
  {row \in selectChapterRows(markingsTable, msg.owner, msg.translation, msg.book,
                             msg.chapter) : Keys(JSONParse(row.data)) # {}}

\* the step in which a clearing PUT overwrites the row: it has stored a snapshot
\* exactly if the row it overwrites holds a map with keys, and the snapshot is
\* that map
C12_ClearingOverwrite(msg) ==
  LET key == backupKey(msg.owner, msg.translation, msg.book, msg.chapter)
  IN (isClearing(msg.data) /\ markingsTable' # markingsTable
        /\ \A left \in net' : left.id # msg.id)
       => /\ (msg.stage = "backedup") <=> (StoredNonEmpty(msg) # {})
          /\ msg.stage = "backedup"
               => /\ key \in DOMAIN cache
                  /\ \E row \in StoredNonEmpty(msg) : cache[key] = row.data

\* no step of a PUT with a payload that has keys touches the cache
C12_KeepsSnapshots(msg) ==
  (~isClearing(msg.data) /\ msg \notin net') => cache' = cache

\* C12 (backup on clear): a markings PUT with an empty payload stores a snapshot
\* for its owner and chapter if and only if the row it overwrites holds a map
\* with keys; the snapshot is that map, written before the overwrite; a PUT with
\* a payload that has keys never creates or changes a snapshot.
C12_BackupOnClear ==
  [][\A msg \in PutsInService :
       C12_ClearingOverwrite(msg) /\ C12_KeepsSnapshots(msg)]_vars

\* the owner identity of a row: its account if it has one, its device if not
OwnerIdentity(row) ==
  IF row.user_id # None THEN <<"user", row.user_id[1]>> ELSE <<"device", row.device_id>>

OneRowPerChapter(table) ==
  \A r1, r2 \in table :
    (/\ OwnerIdentity(r1) = OwnerIdentity(r2) /\ r1.translation = r2.translation
     /\ r1.book = r2.book /\ r1.chapter = r2.chapter) => r1 = r2

OneRowPerOwner(table) ==
  \A r1, r2 \in table : OwnerIdentity(r1) = OwnerIdentity(r2) => r1 = r2

\* C10 (key uniqueness): markings and notes hold at most one row per owner
\* identity, translation, book and chapter; symbols and memory at most one row
\* per owner identity.
C10_KeyUnique ==
  /\ OneRowPerChapter(markingsTable) /\ OneRowPerChapter(notesTable)
  /\ OneRowPerOwner(symbolsTable) /\ OneRowPerOwner(memoryTable)

----------------------------------------------------------------------------
(* Properties of the backup endpoint (checked under Spec)                  *)

\* the restore POSTs the worker has not answered
RestoresInService ==
  {msg \in net : msg.kind = "restore" /\ msg.stage \in {"req", "got", "upserted"}}

\* the message of the same request after the step, if the step was the worker's
AfterStep(msg) == {next \in net' \ net : next.id = msg.id /\ next.kind = msg.kind}

\* the steps of a restore POST
C13_RestoreStep(msg) ==
  LET key == backupKey(msg.owner, msg.translation, msg.book, msg.chapter)
  IN \A next \in AfterStep(msg) :
       /\ (msg.stage = "req" /\ key \notin DOMAIN cache)
            => /\ next.stage = "resp" /\ next.data = None
               /\ UNCHANGED <<markingsTable, cache>>
       /\ (msg.stage = "req" /\ key \in DOMAIN cache)
            => /\ next.stage = "got" /\ next.aux = Some(cache[key])
               /\ UNCHANGED <<markingsTable, cache>>
       /\ msg.stage = "got"
            => /\ \E row \in selectChapterRows(markingsTable', msg.owner, msg.translation,
                                               msg.book, msg.chapter) :
                    row.data = msg.aux[1]
               /\ cache' = cache
       /\ msg.stage = "upserted"
            => /\ next.stage = "resp" /\ next.data = Some(JSONParse(msg.aux[1]))
               /\ key \notin DOMAIN cache'
               /\ markingsTable' = markingsTable

\* a backup GET answers absent exactly when the cache has no snapshot for the key
C13_BackupGetStep(msg) ==
  LET key == backupKey(msg.owner, msg.translation, msg.book, msg.chapter)
  IN \A next \in AfterStep(msg) :
       /\ next.stage = "resp"
       /\ (next.data = None) <=> (key \notin DOMAIN cache)

\* C13 (restore consumes the snapshot): a restore POST for a key with a snapshot
\* writes the snapshot's map into the owner's row, answers with that map and
\* deletes the snapshot, so that a backup GET that follows answers absent and a
\* second restore POST answers not found and changes no row; a restore POST for
\* a key with no snapshot answers with an error and leaves the row as it is.
C13_RestoreConsumes ==
  [][/\ \A msg \in RestoresInService : C13_RestoreStep(msg)
     /\ \A msg \in net : (msg.kind = "backupGet" /\ msg.stage = "req")
                           => C13_BackupGetStep(msg)]_vars

\* a restore has been answered with the snapshot, the snapshot is gone, the row
\* holds its map, and a second restore POST for the same key is on its way
C13_Witness ==
  \E done \in net, second \in net :
    /\ done.kind = "restore" /\ done.stage = "resp" /\ done.data # None
    /\ second.kind = "restore" /\ second.stage = "req" /\ second.id > done.id
    /\ second.chapter = done.chapter
    /\ backupKey(done.owner, done.translation, done.book, done.chapter) \notin DOMAIN cache
    /\ \E row \in selectChapterRows(markingsTable, done.owner, done.translation,
                                    done.book, done.chapter) :
         JSONParse(row.data) = done.data[1]

----------------------------------------------------------------------------
(* Properties of the pull that loadChapter starts (checked under Spec)     *)

\* the answers of the worker to a pull that carry a map and wait for their callback
PullAnswers == {msg \in net : msg.kind = "pull" /\ msg.stage = "resp" /\ msg.data # None}

\* the chapter of msg is the active chapter
OnChapter(msg) ==
  msg.translation = translation /\ msg.book = book /\ msg.chapter = chapter

ActiveEntry == localStorage[StorageKey(translation, book, chapter)]

\* C1 (staleness guard): when the answer to a pull started by loadChapter of one
\* chapter is handed to its callback while another chapter is active, the step
\* changes neither the in-memory map, nor the undo or redo stack, nor any entry of
\* the local store.
C1_StalePullDiscarded ==
  [][\A msg \in PullAnswers :
       (~OnChapter(msg) /\ msg \notin net')
         => UNCHANGED <<markings, undoStack, redoStack, localStorage>>]_vars

\* a stale answer is waiting, and it holds keys the active chapter's map lacks
C1_Witness ==
  \E msg \in PullAnswers :
    ~OnChapter(msg) /\ Keys(msg.data[1]) \ Keys(markings) # {}

\* C6 (merge precedence): when the answer to a pull is merged into the active
\* chapter, the keys of the result are the union of the local and the remote keys,
\* a key the local map has keeps the local record as it is when the answer
\* arrives, and a key only the remote map has takes the remote record.
C6_LocalWinsMerge ==
  [][\A msg \in PullAnswers :
       (OnChapter(msg) /\ msg \notin net')
         => /\ Keys(markings') = Keys(markings) \cup Keys(msg.data[1])
            /\ \A key \in Keys(markings') :
                 markings'[key] = IF key \in Keys(markings) THEN markings[key]
                                  ELSE msg.data[1][key]]_vars

\* an answer for the active chapter is waiting; the map was changed after the load
\* that asked for it, collides with the answer on a key with another record, and
\* lacks a key of the answer
C6_Witness ==
  \E msg \in PullAnswers :
    /\ OnChapter(msg) /\ opCount > msg.id
    /\ \E key \in Keys(msg.data[1]) \cap Keys(markings) :
         msg.data[1][key] # markings[key]
    /\ Keys(msg.data[1]) \ Keys(markings) # {}

\* C7 (merge idempotence): when the answer merged into the active chapter has no
\* key the local map lacks, the step leaves the in-memory map, the chapter's entry
\* of the local store and both history stacks as they were; and merging any
\* waiting answer twice gives the map and the entry that merging it once gives.
C7_NothingNew(msg) ==
  (OnChapter(msg) /\ msg \notin net' /\ Keys(msg.data[1]) \subseteq Keys(markings))
    => /\ UNCHANGED <<markings, undoStack, redoStack>>
       /\ ActiveEntry' = ActiveEntry

C7_TwiceIsOnce(msg) ==
  LET once == mergeCloud(msg.data[1], markings)
      twice == mergeCloud(msg.data[1], once)
      saved == saveMarkings(localStorage, msg.translation, msg.book, msg.chapter, once)
  IN /\ twice = once
     /\ saveMarkings(saved, msg.translation, msg.book, msg.chapter, twice) = saved

----------------------------------------------------------------------------
(* Properties of the debounced push (checked under Spec)                   *)

SyncKeys == {SyncKey(t, b, c) : t \in Translations, b \in Books, c \in ChapterNumbers}

TimersOf(tm, key) == {timer \in tm : timer.key = key}

\* the PUT requests of the client that have left it and that the worker has not read
SentPuts(n) == {msg \in n : msg.kind = "put" /\ msg.stage = "req" /\ msg.owner = ClientOwner}

\* a call of the debounced sync: no PUT leaves; the one timer of the active chapter's
\* key now holds the map the call passed and stands for one call more
C8_CallCoalesces ==
  LET key == SyncKey(translation, book, chapter)
      before == TimersOf(timers, key)
  IN (opCount' = opCount + 1 /\ timers' # timers)
       => /\ SentPuts(net') \subseteq SentPuts(net)
          /\ timers' \ TimersOf(timers', key) = timers \ before
          /\ \E timer \in timers' :
               /\ TimersOf(timers', key) = {timer}
               /\ timer.id = opCount' /\ timer.data = markings'
               /\ timer.calls = IF before = {} THEN 1
                                ELSE (CHOOSE old \in before : TRUE).calls + 1

\* a PUT leaves only when a timer fires: it is one PUT, it carries the map of the
\* last call the timer stands for, and its key has no timer left
C8_OnePutPerBurst ==
  LET sent == SentPuts(net') \ SentPuts(net)
  IN sent # {}
       => \E timer \in timers :
            /\ sent = {[Request(timer.id, "put", timer.translation, timer.book,
                                timer.chapter, Some(timer.data))
                          EXCEPT !.calls = timer.calls]}
            /\ timer.key = SyncKey(timer.translation, timer.book, timer.chapter)
            /\ TimersOf(timers', timer.key) = {}
            /\ timers' \subseteq timers

\* C8 (debounce coalescing): k calls of the debounced sync for one chapter key
\* with no timer firing between them send exactly one PUT for that key, when the
\* timer set by the last call fires, with the map the last call passed; at any
\* time a key has at most one pending timer.
C8_DebounceCoalesces ==
  /\ [][C8_CallCoalesces /\ C8_OnePutPerBurst]_vars
  /\ [](\A key \in SyncKeys : Cardinality(TimersOf(timers, key)) <= 1)

\* a PUT that stands for two calls or more has left, with the map of the last one
C8_Witness ==
  \E msg \in SentPuts(net) :
    msg.calls >= 2 /\ msg.id = opCount /\ msg.data = Some(markings)

----------------------------------------------------------------------------
(* Properties of the toolbar (checked under SpecToolbar) *)

\* the handlers of the toolbar on the selection from anchor to focus
ToolbarBatch(anchor, focus) ==
  LET words == getSelectedWords(anchor, focus)
  IN \/ \E color \in Colors, now \in Times : applyHighlight(words, color, now)
     \/ \E style \in UnderlineStyles, color \in Colors, now \in Times :
          applyUnderline(words, style, color, now)
     \/ \E symbolValue \in ValuesOf("symbol"), now \in Times :
          applySymbol(words, symbolValue, now)
     \/ (markedOf(words) # <<>> /\ removeFromSelection(words))

\* C15: a toolbar handler that applies or removes one layer on a selection of more
\* than one word pushes exactly one snapshot, the map before the batch, so that
\* one undo() gives back the map as it was before the whole batch.
C15_BatchSingleUndo ==
  [][\A anchor \in WordIds, focus \in WordIds :
       (Len(getSelectedWords(anchor, focus)) > 1 /\ ToolbarBatch(anchor, focus))
         => /\ undoStack' = pushUndo(undoStack, markings)
            /\ undoState(History)'.markings = markings]_vars

----------------------------------------------------------------------------
(* Properties of owner resolution and of the gate (checked under SpecAuth) *)

\* the requests whose owner the worker has not resolved yet
Arriving == {msg \in net : msg.stage = "arrive"}

\* the session lookup of the request yields a user
SessionUser(msg) == ~msg.cred[1].session.threw /\ msg.cred[1].session.user # None

\* the X-Device-Id header of the request is present, not empty and short enough
HeaderAccepted(msg) ==
  /\ msg.cred[1].deviceId # None
  /\ msg.cred[1].deviceId[1] # ""
  /\ Len(msg.cred[1].deviceId[1]) <= DEVICE_ID_MAX

C16_Step(msg) ==
  (msg \notin net') =>
    \E next \in AfterStep(msg) :
      IF SessionUser(msg)
        THEN /\ next.stage = "owner"
             /\ next.owner = [userId |-> msg.cred[1].session.user, deviceId |-> None]
      ELSE IF HeaderAccepted(msg)
        THEN /\ next.stage = "owner"
             /\ next.owner = [userId |-> None, deviceId |-> msg.cred[1].deviceId]
      ELSE next.stage = "401" /\ next.owner = Unresolved

\* C16: the owner of a request is the user of its session when the session lookup
\* yields one, whatever the device header; otherwise the device of its X-Device-Id
\* header when the header is present, not empty and at most 64 characters long;
\* otherwise it is unresolved.  A lookup that throws or finds no session falls
\* through to the header, and resolution has a result for every request.
C16_OwnerResolution ==
  /\ [][\A msg \in Arriving : C16_Step(msg)]_vars
  /\ [](\A msg \in Arriving : ENABLED ServeResolveOwner(msg))

\* a request whose lookup threw was resolved to its device, and a request with a
\* session and a device header to the user of the session
C16_Witness ==
  \E m1 \in net, m2 \in net :
    /\ m1.stage = "owner" /\ m1.cred[1].session.threw /\ m1.owner.deviceId # None
    /\ m2.stage = "owner" /\ HeaderAccepted(m2) /\ m2.owner.userId # None

\* the operations of an account
AccountOnlyKinds == {"prefsGet", "prefsPut", "claim", "deleteAccount"}

\* the requests that the gate or an account-only handler must turn away
Unauthorized ==
  {msg \in net : /\ msg.stage # "401" /\ msg.cred # None
                 /\ ~SessionUser(msg)
                 /\ (~HeaderAccepted(msg) \/ msg.kind \in AccountOnlyKinds)}

C17_Step(msg) ==
  (msg \notin net') =>
    /\ UNCHANGED <<markingsTable, symbolsTable, memoryTable, notesTable,
                   preferencesTable, cache>>
    /\ \E next \in AfterStep(msg) :
         IF ~HeaderAccepted(msg) \/ msg.stage = "req" THEN next.stage = "401"
         ELSE next.stage \in {"owner", "req"}

\* C17: a request with neither a session user nor an accepted device header is
\* answered 401 by the gate, and a request of a device for an operation of an
\* account (preferences, claim-device, delete-account) is answered 401 by its
\* handler; no step of such a request creates, changes or deletes a row of
\* markings, symbols, memory, notes or preferences, or a backup snapshot.
C17_Unauthorized ==
  /\ [][\A msg \in Unauthorized : C17_Step(msg)]_vars
  /\ [](\A msg \in Unauthorized :
          msg.stage \in (IF HeaderAccepted(msg) THEN {"arrive", "owner", "req"}
                         ELSE {"arrive"}))

\* the gate turned one request away, and the handler of preferences a PUT of a device
C17_Witness ==
  \E m1 \in net, m2 \in net :
    /\ m1.stage = "401" /\ m1.owner = Unresolved
    /\ m2.stage = "401" /\ m2.owner.deviceId # None /\ m2.kind = "prefsPut"

\* the delete-account requests the worker has not answered
DeletesPending ==
  {msg \in net : msg.kind = "deleteAccount" /\ msg.stage \in {"arrive", "owner", "req"}}

\* no row of the five tables, after the step, has the account u
NoRowOf(u) ==
  /\ \A name \in {"markings", "symbols", "memory", "notes"} :
       \A r \in TableNext(name) : r.user_id # u
  /\ \A r \in preferencesTable' : r.user_id # u

C21_Step(msg) ==
  (msg \notin net') =>
    IF SessionUser(msg) /\ msg.aux[1][2] = "DELETE"
      THEN (msg.stage = "req" /\ AfterStep(msg) = {})
             => NoRowOf(msg.cred[1].session.user)
      ELSE /\ UNCHANGED <<markingsTable, symbolsTable, memoryTable, notesTable,
                          preferencesTable>>
           /\ \E next \in AfterStep(msg) :
                next.stage \in (IF msg.stage = "req" THEN {"400", "401"}
                                ELSE IF ~SessionUser(msg) /\ ~HeaderAccepted(msg)
                                  THEN {"401"}
                                ELSE {"owner", "req"})

\* C21 (account deletion cascades): when the worker has answered a delete-account
\* request of account U that carries the confirmation, no row of markings,
\* symbols, memory, notes or preferences has user_id = U, whether a PUT or a
\* device claim gave the row to U; a request with no account or without the
\* confirmation deletes nothing and is answered with an error.
C21_DeleteCascades == [][\A msg \in DeletesPending : C21_Step(msg)]_vars

----------------------------------------------------------------------------
(* Properties of the local store (checked under SpecStorage) *)

\* what the claim has loadMarkings return for a stored entry
C19_Expected(raw) ==
  IF raw = None \/ ~JSONParses(raw[1]) THEN EmptyMap
  ELSE LET parsed == JSONParse(raw[1])
       IN [key \in DOMAIN parsed |->
             IF DOMAIN parsed[key] = {"id", "type", "value", "createdAt"}
               THEN [x \in {parsed[key].type} |->
                       [value |-> parsed[key].value, createdAt |-> parsed[key].createdAt]]
               ELSE parsed[key]]

\* loadChapter, which calls loadMarkings, can be called whatever the entry holds, and
\* the map it loads is the expected one
C19_Load ==
  \A t \in Translations, b \in Books, c \in ChapterNumbers :
    loadChapter(t, b, c) => markings' = C19_Expected(localStorage[StorageKey(t, b, c)])

\* a call of the store that changes the map of the loaded chapter while the storage
\* accepts writes: loadMarkings then returns the map that was saved
C19_RoundTrip ==
  (/\ ChapterLoaded /\ ~quotaExceeded /\ markings' # markings
   /\ <<translation', book', chapter'>> = <<translation, book, chapter>>)
    => loadMarkings(translation, book, chapter)' = markings'

\* C19 (the local load never fails): loadMarkings returns the empty map when the
\* chapter has no entry or its text does not parse, and has a result for every
\* entry; an entry in the legacy shape { id, type, value, createdAt } comes back
\* as a record with exactly the layer named by type, with the same value and
\* createdAt; loadMarkings after a successful saveMarkings(m) returns m.
C19_LoadNeverFails ==
  /\ [][C19_Load /\ C19_RoundTrip]_vars
  /\ [](\A t \in Translations, b \in Books, c \in ChapterNumbers :
          opCount < MaxStorageOps => ENABLED loadChapter(t, b, c))

\* a chapter was loaded from an entry with a legacy record, a word of it was marked
\* and saved, and the entry of the other chapter does not parse
C19_Witness ==
  /\ ChapterLoaded
  /\ wordKey(1, 0) \in DOMAIN markings
  /\ DOMAIN markings[wordKey(1, 0)] = {"symbol", "highlight"}
  /\ markings[wordKey(1, 0)]["symbol"] = Layer("Cross|#dc2626|fill", 1)
  /\ localStorage[StorageKey(translation, book, chapter)] = Some(JSONStringify(markings))
  /\ \E key \in StorageKeys : localStorage[key] = Some(CorruptText)

\* a state-changing call of the store on one word
C20_Mutation ==
  \/ \E verse \in Verses, wordIndex \in WordIndexes, type \in UsedTypes, now \in Times :
       \E value \in ValuesOf(type) : addMarking(verse, wordIndex, type, value, now)
  \/ \E verse \in Verses, wordIndex \in WordIndexes, type \in TypeArgs :
       /\ wordKey(verse, wordIndex) \in DOMAIN markings
       /\ removeMarking(verse, wordIndex, type)
  \/ clearChapter

\* C20 (a failed local save is reported and is not fatal): saveMarkings returns
\* false exactly when the write fails; a mutation whose save fails still changes
\* the map, pushes the snapshot and sets the debounced push of the new map, it
\* writes nothing to the storage, and the failure is visible to the caller as a
\* warning state (saveError).
C20_SaveFailureReported ==
  /\ [](saveMarkingsReturns = ~quotaExceeded)
  /\ [][(quotaExceeded /\ C20_Mutation)
          => /\ undoStack' = pushUndo(undoStack, markings)
             /\ \E timer \in timers' :
                  /\ timer.key = SyncKey(translation, book, chapter)
                  /\ timer.data = markings'
             /\ localStorage' = localStorage
             /\ saveError']_vars

----------------------------------------------------------------------------
(* Properties of the asynchronous results of the client (checked under Spec) *)

\* the answers waiting for their callback: of a pull, of a backup check, of a restore
AsyncAnswers ==
  {msg \in net : msg.kind \in {"pull", "backupGet", "restore"} /\ msg.stage = "resp"}

\* C22 (no stale asynchronous result is applied): when the answer to a pull, a
\* backup check or a restore that was started on one chapter is handed to its
\* callback while another chapter is active, the step changes neither the
\* in-memory map, nor the undo or redo stack, nor hasCloudBackup.
C22_NoStaleResult ==
  [][\A msg \in AsyncAnswers :
       (~OnChapter(msg) /\ msg \notin net')
         => UNCHANGED <<markings, undoStack, redoStack, hasCloudBackup>>]_vars

----------------------------------------------------------------------------
(* Properties of the client's device claim (checked under SpecClaim) *)

\* the device id is stored and is not marked as claimed
C23_ToClaim == localStorage[DeviceIdKey] # None /\ localStorage[DeviceClaimedKey] = None

\* C23 (the device claim runs once): a session init with a user sends a claim
\* request exactly when a device id is stored and is not marked as claimed, so
\* none after a claim has succeeded; a successful answer sets the mark; a failed
\* request or answer leaves the mark as it is.
C23_ClaimOnce ==
  /\ [][\A session \in {None} \cup {Some(u) : u \in Users} :
          init(session) => ((net' # net) <=> (session # None /\ C23_ToClaim))]_vars
  /\ [][\A msg \in net :
          (msg.kind = "claim" /\ msg \notin net' /\ AfterStep(msg) = {})
            => IF msg.stage = "resp" THEN localStorage'[DeviceClaimedKey] # None
               ELSE localStorage' = localStorage]_vars

----------------------------------------------------------------------------
(* Properties of a failed push (checked under Spec) *)

\* a call of the store that passes a changed map to persist
C24_Persists ==
  /\ markings' # markings
  /\ \/ \E verse \in Verses, wordIndex \in WordIndexes, type \in UsedTypes, now \in Times :
          \E value \in ValuesOf(type) : addMarking(verse, wordIndex, type, value, now)
     \/ \E verse \in Verses, wordIndex \in WordIndexes, type \in TypeArgs :
          removeMarking(verse, wordIndex, type)
     \/ clearChapter
     \/ \E verse \in Verses : clearVerse(verse)
     \/ \E symbol \in ValuesOf("symbol") : clearSymbolInChapter(symbol)
     \/ undo
     \/ redo

\* the PUTs of the client that the worker has not finished
C24_PutsOut == {msg \in net : msg.kind = "put" /\ msg.owner = ClientOwner}

\* C24 (a failed push is swallowed and heals): a PUT that leaves without having
\* changed the table changes neither the map, the stacks, the local store nor
\* the timers (no retry is scheduled); every later mutation, undo or redo leaves
\* one timer for the active chapter whose payload is the whole new map; and the
\* PUT that reaches the table leaves the owner's row of the chapter with its
\* payload.
C24_PushFailureHeals ==
  /\ [][\A msg \in C24_PutsOut :
          (msg \notin net' /\ AfterStep(msg) = {} /\ markingsTable' = markingsTable)
            => UNCHANGED <<storeVars, clientVars, histVars>>]_vars
  /\ [][C24_Persists
          => \E timer \in timers' :
               /\ TimersOf(timers', SyncKey(translation, book, chapter)) = {timer}
               /\ timer.data = markings']_vars
  /\ [][\A msg \in C24_PutsOut :
          (msg \notin net' /\ AfterStep(msg) = {} /\ markingsTable' # markingsTable)
            => \E r \in markingsTable' :
                 /\ selectChapterRows(markingsTable', msg.owner, msg.translation,
                                      msg.book, msg.chapter) = {r}
                 /\ r.data = JSONStringify(msg.data[1])]_vars

\* the PUT of the second call has left as the first PUT of a new timer, with the
\* whole map of two words, while the table has the row of the earlier session:
\* the PUT of the first call has left and failed
C24_Witness ==
  /\ markingsTable = {PriorRow(PriorMap)} /\ timers = {}
  /\ \E msg \in SentPuts(net) :
       /\ C24_PutsOut = {msg}
       /\ msg.id = opCount /\ msg.calls = 1 /\ msg.data = Some(markings)
       /\ <<msg.translation, msg.book, msg.chapter>> = <<translation, book, chapter>>
       /\ Cardinality(DOMAIN markings) = 2
       /\ <<translation, book, chapter>> # PriorChapter

----------------------------------------------------------------------------
(* Properties of the timers of different chapters (checked under SpecKeys) *)

\* the call of this step set the timer of the key
C25_Called(key) ==
  /\ opCount' = opCount + 1
  /\ key = SyncKey(translation, book, chapter)
  /\ <<translation', book', chapter'>> = <<translation, book, chapter>>

\* the timer fired in this step: one PUT to its chapter with its map
C25_Fired(timer) ==
  /\ SentPuts(net') \ SentPuts(net) =
       {[Request(timer.id, "put", timer.translation, timer.book, timer.chapter,
                 Some(timer.data)) EXCEPT !.calls = timer.calls]}
  /\ timer.key = SyncKey(timer.translation, timer.book, timer.chapter)

\* C25 (the timers of different keys are independent): the timer of a key stays
\* as it is, with its map, through every step but a call for that same key and
\* its own firing, which sends one PUT to its own chapter with its map; a step
\* changes the timer of one key at most, no PUT leaves without a timer firing,
\* and no timer stays pending for ever.
C25_KeysIndependent ==
  /\ [][\A timer \in timers :
          timer \in timers' \/ C25_Called(timer.key) \/ C25_Fired(timer)]_vars
  /\ [][\A k1, k2 \in SyncKeys :
          (TimersOf(timers', k1) # TimersOf(timers, k1) /\ k1 # k2)
            => TimersOf(timers', k2) = TimersOf(timers, k2)]_vars
  /\ [][SentPuts(net') \subseteq SentPuts(net)
          \/ \E timer \in timers : timer \notin timers' /\ C25_Fired(timer)]_vars
  /\ \A id \in 1 .. MaxKeyOps :
       (\E timer \in timers : timer.id = id) ~> (\A timer \in timers : timer.id # id)

\* the PUT of the second chapter has left, with the map on the page, while the
\* timer of the first chapter, set before the page changed, is pending with the
\* map stored for the first chapter
C25_Witness ==
  \E timer \in timers, msg \in SentPuts(net) :
    /\ timer.key # SyncKey(translation, book, chapter)
    /\ timer.id < msg.id
    /\ localStorage[StorageKey(timer.translation, timer.book, timer.chapter)]
         = Some(JSONStringify(timer.data))
    /\ <<msg.translation, msg.book, msg.chapter>> = <<translation, book, chapter>>
    /\ msg.data = Some(markings) /\ Keys(markings) # {}

----------------------------------------------------------------------------
(* Properties of the order of the local and the remote write (checked under Spec) *)

\* the entry of the chapter on the page loads as the map on the page
C26_EntryIsMap == loadMarkings(translation, book, chapter) = markings

\* C26 (local first): the step of a mutation, an undo or a redo whose save
\* succeeds writes the new map to the entry of the chapter on the page and sends
\* no request; and as no save fails in these behaviours, the entry of the
\* chapter on the page is the map on the page in every state.
C26_LocalFirst ==
  /\ [][(C24_Persists /\ saveMarkingsReturns)
          => /\ localStorage'[StorageKey(translation, book, chapter)]
                  = Some(JSONStringify(markings'))
             /\ \A msg \in net' \ net : msg.kind = "checkTimer"]_vars
  /\ [](ChapterLoaded => C26_EntryIsMap)

----------------------------------------------------------------------------
(* Properties of the pull and the history (checked under Spec) *)

C27_Pulls == {msg \in net : msg.kind = "pull" /\ msg.owner = ClientOwner}

\* C27 (the pull leaves the history alone): the step that applies the answer of
\* a pull and leaves the map as it was leaves the undo stack and the redo stack
\* as they were; a pull that fails, or whose answer carries no data, leaves with
\* no change of the store, the local store or the timers.
C27_PullKeepsHistory ==
  /\ [][\A msg \in C27_Pulls :
          (msg.stage = "resp" /\ msg \notin net' /\ markings' = markings)
            => UNCHANGED <<undoStack, redoStack>>]_vars
  /\ [][\A msg \in C27_Pulls :
          (msg \notin net' /\ AfterStep(msg) = {} /\ (msg.stage = "req" \/ msg.data = None))
            => UNCHANGED <<storeVars, clientVars>>]_vars

\* an answer with words is waiting for the chapter on the page, it merges to the
\* map on the page, and the page has a history of two calls
C27_Witness ==
  \E msg \in PullAnswers :
    /\ OnChapter(msg)
    /\ Keys(msg.data[1]) # {}
    /\ mergeCloud(msg.data[1], markings) = markings
    /\ Len(undoStack) >= 2

----------------------------------------------------------------------------
(* Properties of the restore on the page (checked under SpecRestore) *)

C28_Restores == {msg \in net : msg.kind = "restore" /\ msg.owner = ClientOwner}

\* what the callback of a restore that succeeded leaves
C28_Applied(msg) ==
  /\ msg.stage = "resp" /\ msg.data # None
  /\ markings' = msg.data[1]
  /\ undoStack' = pushUndo(undoStack, markings)
  /\ Len(undoStack') <= MAX_UNDO /\ Last(undoStack') = markings
  /\ redoStack' = <<>>
  /\ hasCloudBackup' = FALSE
  /\ saveMarkingsReturns
       => localStorage' = [localStorage EXCEPT
            ![StorageKey(msg.translation, msg.book, msg.chapter)]
               = Some(JSONStringify(msg.data[1]))]
  /\ undoState([markings |-> markings', undoStack |-> undoStack',
                redoStack |-> redoStack']).markings = markings

\* C28 (a restore is a mutation): the step that ends a restore either applies
\* the snapshot: the map that was current is the last entry of the undo stack,
\* which has 50 entries at most, the redo stack is empty, the map is the
\* snapshot, the snapshot is in the local store, hasCloudBackup is false and one
\* undo gives the earlier map; or, when the request failed or the answer has no
\* data, it leaves the map, both stacks, the local store and hasCloudBackup as
\* they were.  An answer with data that arrives is applied.
C28_RestoreIsMutation ==
  /\ [][\A msg \in C28_Restores :
          (msg \notin net' /\ AfterStep(msg) = {})
            => \/ C28_Applied(msg)
               \/ UNCHANGED <<markings, undoStack, redoStack, localStorage, hasCloudBackup>>]_vars
  /\ [][\A msg \in C28_Restores :
          RestoreResponse(msg) => (msg.data = None \/ C28_Applied(msg))]_vars

\* the snapshot has been applied on a page whose undo stack was full
C28_Witness ==
  /\ Len(undoStack) = MAX_UNDO /\ redoStack = <<>> /\ ~hasCloudBackup
  /\ markings = PriorMap /\ Last(undoStack) # PriorMap
  /\ undoStack[1] = SeedMap(1) /\ nMut = 0
  /\ loadMarkings(translation, book, chapter) = markings
  /\ PriorBackupKey \notin DOMAIN cache

----------------------------------------------------------------------------
(* Properties of removals and the pull (checked under Spec) *)

\* the words the last call on the chapter had removed when the page last left
\* it: the call was no undo (the redo stack was empty) and the map it replaced,
\* the last entry of the undo stack, has words that the map on the page lacks
C29_Removed ==
  LET left == archived[<<translation, book, chapter>>]
  IN IF left.undoStack = <<>> \/ left.redoStack # <<>> THEN {}
     ELSE Keys(Last(left.undoStack)) \ Keys(markings)

\* C29 (a removal is not brought back by the pull): when the last call on a
\* chapter removed words, the page then loaded the chapter again and nothing
\* was done since, the answer of that load's pull leaves the removed words out
\* of the map on the page and out of the chapter's entry of the local store.
C29_NoResurrection ==
  [][\A msg \in PullAnswers :
       (/\ OnChapter(msg) /\ msg \notin net'
        /\ msg.id = opCount /\ undoStack = <<>> /\ redoStack = <<>>)
         => /\ C29_Removed \cap Keys(markings') = {}
            /\ C29_Removed \cap Keys(JSONParse(localStorage'[StorageKey(translation, book, chapter)][1])) = {}]_vars

----------------------------------------------------------------------------
(* Properties of what an owner reads back (checked under SpecServer) *)

\* the texts a markings GET of the owner for the chapter can be answered with
C30_Readable(table, owner, c) ==
  {r.data : r \in selectChapterRows(table, owner, "ESV", 1, c)}

\* C30 (an owner reads its own writes): what a markings GET of an owner can
\* return for a chapter changes only in a step that ends a request of that
\* owner, and the step that ends the owner's PUT for the chapter leaves the map
\* of that PUT as the one answer; no request of another owner changes it.
C30_ReadYourWrites ==
  [][\A owner \in Owners, c \in ChapterNumbers :
       LET before == C30_Readable(markingsTable, owner, c)
           after == C30_Readable(markingsTable', owner, c)
       IN after # before
            => \E msg \in net :
                 /\ msg.owner = owner /\ msg \notin net'
                 /\ \/ msg.kind = "claim"
                    \/ /\ msg.kind = "put" /\ msg.chapter = c
                       /\ after = {JSONStringify(msg.data[1])}]_vars

====
